---- MODULE Spec2Model ----
(***************************************************************************)
(* Model of the cross-chain transfer precheck pipeline of                  *)
(* pruv-bridge-example (BridgeService.precheckTransferToken and the        *)
(* gateways and configuration lookups it calls).                           *)
(*                                                                         *)
(* Text values are TLA+ strings and are inspected character by character   *)
(* with Len/SubSeq, so that parsing, prefix tests and number formatting    *)
(* are computed the way the code computes them.  The JavaScript values     *)
(* null and undefined are the two reserved strings Null and Undefined.     *)
(***************************************************************************)
EXTENDS Integers, Sequences, FiniteSets, TLC

(***************************************************************************)
(* Bounds of the model.                                                    *)
(***************************************************************************)
MaxBalance == 2
MaxNative == 1
MaxAllowance == 1
MaxDecimals == 1

(***************************************************************************)
(* Program constants.                                                      *)
(***************************************************************************)
AddressHexLength == 40
Bytes32HexLength == 64
EtherDecimals == 18

Null == "<null>"
Undefined == "<undefined>"

(***************************************************************************)
(* Character-level helpers on strings.                                     *)
(***************************************************************************)
Digits == {"0", "1", "2", "3", "4", "5", "6", "7", "8", "9"}
LowerHex == {"a", "b", "c", "d", "e", "f"}
UpperHex == {"A", "B", "C", "D", "E", "F"}
HexDigits == Digits \cup LowerHex \cup UpperHex

Char(s, i) == SubSeq(s, i, i)

AllIn(s, set) == \A i \in 1..Len(s) : Char(s, i) \in set

startsWith(s, p) == Len(s) >= Len(p) /\ SubSeq(s, 1, Len(p)) = p

Drop(s, n) == SubSeq(s, n + 1, Len(s))

RECURSIVE Rep(_, _)
Rep(c, n) == IF n <= 0 THEN "" ELSE c \o Rep(c, n - 1)

DigitValue(c) ==
  CASE c = "0" -> 0 [] c = "1" -> 1 [] c = "2" -> 2 [] c = "3" -> 3
    [] c = "4" -> 4 [] c = "5" -> 5 [] c = "6" -> 6 [] c = "7" -> 7
    [] c = "8" -> 8 [] c = "9" -> 9

RECURSIVE ParseNat(_)
ParseNat(s) ==
  IF Len(s) = 0 THEN 0
  ELSE 10 * ParseNat(SubSeq(s, 1, Len(s) - 1)) + DigitValue(Char(s, Len(s)))

RECURSIVE LeadingDigits(_)
LeadingDigits(s) ==
  IF Len(s) > 0 /\ Char(s, 1) \in Digits
  THEN Char(s, 1) \o LeadingDigits(Drop(s, 1))
  ELSE ""

RECURSIVE TrimStart(_)
TrimStart(s) ==
  IF Len(s) > 0 /\ Char(s, 1) = " " THEN TrimStart(Drop(s, 1)) ELSE s

RECURSIVE StripTrailingZeros(_)
StripTrailingZeros(s) ==
  IF Len(s) > 0 /\ Char(s, Len(s)) = "0"
  THEN StripTrailingZeros(SubSeq(s, 1, Len(s) - 1))
  ELSE s

RECURSIVE Pow10(_)
Pow10(n) == IF n <= 0 THEN 1 ELSE 10 * Pow10(n - 1)

Ok(v) == [ok |-> TRUE, val |-> v]
Err(m) == [ok |-> FALSE, err |-> m]

(***************************************************************************)
(* Natural numbers beyond the machine integers, as decimal digit strings   *)
(* without leading zeros, and the rounding of such a number to the nearest *)
(* IEEE-754 double (ties to even): a JavaScript number keeps 53            *)
(* significant bits.                                                       *)
(***************************************************************************)
MantissaBits == 53
MachineDigits == 9

RECURSIVE StripLeadingZeros(_)
StripLeadingZeros(s) ==
  IF Len(s) > 1 /\ Char(s, 1) = "0" THEN StripLeadingZeros(Drop(s, 1)) ELSE s

IsOdd(s) == DigitValue(Char(s, Len(s))) % 2 = 1

RECURSIVE HalveFrom(_, _)
HalveFrom(s, carry) ==
  IF s = "" THEN ""
  ELSE LET d == 10 * carry + DigitValue(Char(s, 1))
       IN ToString(d \div 2) \o HalveFrom(Drop(s, 1), d % 2)

Halve(s) == StripLeadingZeros(HalveFrom(s, 0))

RECURSIVE TwiceFrom(_, _)
TwiceFrom(s, carry) ==
  IF s = "" THEN (IF carry = 0 THEN "" ELSE ToString(carry))
  ELSE LET d == 2 * DigitValue(Char(s, Len(s))) + carry
       IN TwiceFrom(SubSeq(s, 1, Len(s) - 1), d \div 10) \o ToString(d % 10)

Twice(s) == StripLeadingZeros(TwiceFrom(s, 0))

RECURSIVE Successor(_)
Successor(s) ==
  IF s = "" THEN "1"
  ELSE IF Char(s, Len(s)) = "9" THEN Successor(SubSeq(s, 1, Len(s) - 1)) \o "0"
  ELSE SubSeq(s, 1, Len(s) - 1) \o ToString(DigitValue(Char(s, Len(s))) + 1)

RECURSIVE BitLength(_)
BitLength(s) == IF s = "0" THEN 0 ELSE 1 + BitLength(Halve(s))

\* s shifted right by k bits, with the last bit shifted out and whether any
\* bit before it was set
RECURSIVE ShiftRight(_, _, _, _)
ShiftRight(s, k, half, sticky) ==
  IF k = 0 THEN [q |-> s, half |-> half, sticky |-> sticky]
  ELSE ShiftRight(Halve(s), k - 1, IsOdd(s), sticky \/ half)

RECURSIVE ShiftLeft(_, _)
ShiftLeft(s, k) == IF k = 0 THEN s ELSE ShiftLeft(Twice(s), k - 1)

RoundToDouble(digits) ==
  LET n == StripLeadingZeros(digits)
      k == BitLength(n) - MantissaBits
      r == ShiftRight(n, k, FALSE, FALSE)
      up == r.half /\ (r.sticky \/ IsOdd(r.q))
  IN IF k <= 0 THEN n
     ELSE ShiftLeft(IF up THEN Successor(r.q) ELSE r.q, k)

RECURSIVE LexLessOrEqual(_, _)
LexLessOrEqual(a, b) ==
  \/ a = ""
  \/ DigitValue(Char(a, 1)) < DigitValue(Char(b, 1))
  \/ Char(a, 1) = Char(b, 1) /\ LexLessOrEqual(Drop(a, 1), Drop(b, 1))

\* a <= b on digit strings without leading zeros
DigitsLessOrEqual(a, b) ==
  Len(a) < Len(b) \/ (Len(a) = Len(b) /\ LexLessOrEqual(a, b))

(***************************************************************************)
(* JavaScript parseFloat: the longest prefix of the trimmed string that    *)
(* is a decimal literal ("Infinity" included); NaN when there is none.     *)
(* A number is mant * 10^exp with a sign; an integer numeral too long for  *)
(* a machine integer is kept as the digits of the double it rounds to.     *)
(***************************************************************************)
NaN == [kind |-> "nan", neg |-> FALSE, mant |-> 0, exp |-> 0, digits |-> ""]
Infinity(neg) == [kind |-> "inf", neg |-> neg, mant |-> 0, exp |-> 0, digits |-> ""]
Num(neg, mant, exp) ==
  [kind |-> "num", neg |-> neg, mant |-> mant, exp |-> exp, digits |-> ""]
Big(neg, digits) ==
  [kind |-> "big", neg |-> neg, mant |-> 0, exp |-> 0, digits |-> RoundToDouble(digits)]

ExponentPart(s) ==
  IF Len(s) > 0 /\ Char(s, 1) \in {"e", "E"}
  THEN LET r == Drop(s, 1)
           eneg == startsWith(r, "-")
           body == IF startsWith(r, "-") \/ startsWith(r, "+") THEN Drop(r, 1) ELSE r
           ds == LeadingDigits(body)
       IN IF Len(ds) = 0 THEN 0
          ELSE IF eneg THEN 0 - ParseNat(ds) ELSE ParseNat(ds)
  ELSE 0

parseFloat(str) ==
  LET t == TrimStart(str)
      neg == startsWith(t, "-")
      u == IF startsWith(t, "-") \/ startsWith(t, "+") THEN Drop(t, 1) ELSE t
      whole == LeadingDigits(u)
      r == Drop(u, Len(whole))
      frac == IF startsWith(r, ".") THEN LeadingDigits(Drop(r, 1)) ELSE ""
      afterFrac == IF startsWith(r, ".") THEN Drop(r, 1 + Len(frac)) ELSE r
  IN IF startsWith(u, "Infinity") THEN Infinity(neg)
     ELSE IF Len(whole) + Len(frac) = 0 THEN NaN
     ELSE IF Len(StripLeadingZeros(whole)) > MachineDigits /\ frac = ""
             /\ ExponentPart(afterFrac) = 0
     THEN Big(neg, whole)
     ELSE Num(neg, ParseNat(whole \o frac), ExponentPart(afterFrac) - Len(frac))

isNaN(n) == n.kind = "nan"

\* n <= 0 on JavaScript numbers (false for NaN, true for -0 and -Infinity).
LessOrEqualZero(n) ==
  CASE n.kind = "nan" -> FALSE
    [] n.kind = "inf" -> n.neg
    [] n.kind = "num" -> n.neg \/ n.mant = 0
    [] n.kind = "big" -> n.neg

\* a >= b on JavaScript numbers (false when either is NaN)
Scaled(n, e) == (IF n.neg THEN 0 - 1 ELSE 1) * n.mant * Pow10(n.exp - e)

GreaterOrEqual(a, b) ==
  LET e == IF a.exp < b.exp THEN a.exp ELSE b.exp
  IN CASE a.kind = "nan" \/ b.kind = "nan" -> FALSE
       [] a.kind = "inf" -> ~a.neg \/ (b.kind = "inf" /\ b.neg)
       [] b.kind = "inf" -> b.neg
       [] a.kind = "big" /\ b.kind = "big" ->
            IF a.neg # b.neg THEN b.neg
            ELSE IF a.neg THEN DigitsLessOrEqual(a.digits, b.digits)
            ELSE DigitsLessOrEqual(b.digits, a.digits)
       [] a.kind = "big" -> ~a.neg
       [] b.kind = "big" -> b.neg
       [] OTHER -> Scaled(a, e) >= Scaled(b, e)

\* BigInt(string) of a caller-supplied amount: a SyntaxError unless an integer numeral
BigIntOfString(str) ==
  IF AllIn(str, Digits) THEN Ok(ParseNat(str))
  ELSE Err("Cannot convert " \o str \o " to a BigInt")

\* a scaling that drops the fractional digits the format cannot hold
parseUnits_Truncating(value, decimals) ==
  LET neg == startsWith(value, "-")
      body == IF neg THEN Drop(value, 1) ELSE value
      whole == LeadingDigits(body)
      r == Drop(body, Len(whole))
      afterDot == IF startsWith(r, ".") THEN Drop(r, 1) ELSE r
      decimal == LeadingDigits(afterDot)
      padded == decimal \o Rep("0", decimals - Len(decimal))
      scaled == ParseNat(whole \o SubSeq(padded, 1, decimals))
  IN IF Len(afterDot) # Len(decimal) \/ Len(whole) + Len(decimal) = 0
     THEN Err("invalid FixedNumber string value")
     ELSE Ok(IF neg THEN 0 - scaled ELSE scaled)

(***************************************************************************)
(* ethers.parseUnits(value, decimals): exact decimal scaling of a string   *)
(* made of an optional minus sign, digits, an optional point and digits,   *)
(* with at least one digit; excess fractional digits must all be zero.     *)
(***************************************************************************)
parseUnits(value, decimals) ==
  LET neg == startsWith(value, "-")
      body == IF neg THEN Drop(value, 1) ELSE value
      whole == LeadingDigits(body)
      r == Drop(body, Len(whole))
      afterDot == IF startsWith(r, ".") THEN Drop(r, 1) ELSE r
      decimal == LeadingDigits(afterDot)
      padded == decimal \o Rep("0", decimals - Len(decimal))
      scaled == ParseNat(whole \o SubSeq(padded, 1, decimals))
  IN IF Len(afterDot) # Len(decimal) \/ Len(whole) + Len(decimal) = 0
     THEN Err("invalid FixedNumber string value")
     ELSE IF ~AllIn(Drop(padded, decimals), {"0"})
     THEN Err("too many decimals for format")
     ELSE Ok(IF neg THEN 0 - scaled ELSE scaled)

\* BigInt(str) of the decimal string a contract value was rendered to.
BigInt(str) == ParseNat(str)

(***************************************************************************)
(* ethers.formatEther(wei) = formatUnits(wei, 18): whole part, a point,    *)
(* and the 18 fractional digits with trailing zeros removed (one kept).    *)
(***************************************************************************)
formatEther(wei) ==
  LET ds == ToString(wei)
      padded == Rep("0", EtherDecimals + 1 - Len(ds)) \o ds
      whole == SubSeq(padded, 1, Len(padded) - EtherDecimals)
      frac == StripTrailingZeros(Drop(padded, Len(padded) - EtherDecimals))
  IN whole \o "." \o (IF frac = "" THEN "0" ELSE frac)

\* ethers.formatUnits(value, decimals): no point at all when decimals is 0
formatUnits(value, decimals) ==
  LET ds == ToString(value)
      padded == Rep("0", decimals + 1 - Len(ds)) \o ds
      whole == SubSeq(padded, 1, Len(padded) - decimals)
      frac == StripTrailingZeros(Drop(padded, Len(padded) - decimals))
  IN IF decimals = 0 THEN ds
     ELSE whole \o "." \o (IF frac = "" THEN "0" ELSE frac)

\* String.prototype.toLowerCase on the characters of a hex string
LowerOf(c) ==
  CASE c = "A" -> "a" [] c = "B" -> "b" [] c = "C" -> "c"
    [] c = "D" -> "d" [] c = "E" -> "e" [] c = "F" -> "f"
    [] OTHER -> c

RECURSIVE toLowerCase(_)
toLowerCase(s) == IF s = "" THEN "" ELSE LowerOf(Char(s, 1)) \o toLowerCase(Drop(s, 1))

(***************************************************************************)
(* ethers.isAddress: 40 hex digits with an optional "0x"; a mixed-case     *)
(* address must carry the EIP-55 checksum, which is taken from a table of  *)
(* known checksummed addresses (keccak256 is not computed here).  ICAP     *)
(* addresses are not modelled.                                             *)
(***************************************************************************)
ZeroAddress == "0x" \o Rep("0", AddressHexLength)
ZeroBytes32 == "0x" \o Rep("0", Bytes32HexLength)

ChecksummedAddresses == {"0xd8dA6BF26964aF9D7eEd9e03E53415D37aA96045"}

isAddress(value) ==
  LET body == IF startsWith(value, "0x") THEN Drop(value, 2) ELSE value
      mixed == (\E i \in 1..Len(body) : Char(body, i) \in LowerHex)
               /\ (\E i \in 1..Len(body) : Char(body, i) \in UpperHex)
  IN /\ Len(body) = AddressHexLength
     /\ AllIn(body, HexDigits)
     /\ mixed => ("0x" \o body) \in ChecksummedAddresses

\* a padding that appends the zeros
zeroPadValue_RightPadded(data, length) ==
  "0x" \o toLowerCase(Drop(data, 2)) \o Rep("0", 2 * length - (Len(data) - 2))

\* ethers.zeroPadValue(data, length): the bytes of data, left-padded with zeros
zeroPadValue(data, length) ==
  "0x" \o Rep("0", 2 * length - (Len(data) - 2)) \o toLowerCase(Drop(data, 2))

(***************************************************************************)
(* new ethers.Wallet(key).address: the key is 32 bytes of hex ("0x" is     *)
(* added when missing) and a non-zero scalar below the curve order.  The   *)
(* derived address stands for keccak256 of the public key: a fixed         *)
(* function of the key that yields a well-formed address.                  *)
(***************************************************************************)
CurveOrderHex == "fffffffffffffffffffffffffffffffebaaedce6af48a03bbfd25e8cd0364141"

HexValue(c) ==
  CASE c \in Digits -> DigitValue(c)
    [] c \in {"a", "A"} -> 10 [] c \in {"b", "B"} -> 11 [] c \in {"c", "C"} -> 12
    [] c \in {"d", "D"} -> 13 [] c \in {"e", "E"} -> 14 [] c \in {"f", "F"} -> 15

\* a < b for two hex strings of the same length
HexLess(a, b) ==
  \E i \in 1..Len(a) :
    /\ HexValue(Char(a, i)) < HexValue(Char(b, i))
    /\ \A j \in 1..(i - 1) : HexValue(Char(a, j)) = HexValue(Char(b, j))

\* a signer that also takes twenty bytes for a key
Wallet_AnyWidth(privateKey) ==
  LET body == IF startsWith(privateKey, "0x") THEN Drop(privateKey, 2) ELSE privateKey
  IN IF /\ Len(body) \in {Bytes32HexLength, AddressHexLength}
        /\ AllIn(body, HexDigits)
        /\ ~AllIn(body, {"0"})
     THEN Ok("0x" \o Drop(body, Len(body) - AddressHexLength))
     ELSE Err("invalid private key")

Wallet(privateKey) ==
  LET body == IF startsWith(privateKey, "0x") THEN Drop(privateKey, 2) ELSE privateKey
  IN IF /\ Len(body) = Bytes32HexLength
        /\ AllIn(body, HexDigits)
        /\ ~AllIn(body, {"0"})
        /\ HexLess(body, CurveOrderHex)
     THEN Ok("0x" \o Drop(body, Bytes32HexLength - AddressHexLength))
     ELSE Err("invalid private key")

(***************************************************************************)
(* Static configuration: the chain table and the asset table.              *)
(***************************************************************************)
\* core_addresses is optional: one chain has a messaging hub, the others none
chainConfig ==
  [ethereum |-> [chain_id |-> 1, rpc_urls |-> <<"https://mainnet.infura.io/v3/test">>,
                 core_addresses |-> [mailbox |-> "0xABCDEF0123456789abcdef0123456789ABCDEF01"]],
   polygon |-> [chain_id |-> 137,
                rpc_urls |-> <<"https://polygon-rpc.com", "https://rpc-mainnet.matic.network">>],
   emptyRpc |-> [chain_id |-> 999, rpc_urls |-> <<>>],
   nullRpc |-> [chain_id |-> 998, rpc_urls |-> <<Null>>],
   noRpc |-> [chain_id |-> 997]]

assetsConfig ==
  [USDC |-> [ethereum |-> [router_address |-> "0x1234567890123456789012345678901234567890",
                           collateral_address |-> "0xA0b86a33E6441c8C06DD2b7c94b7E0e8c0c8c8c8"],
             polygon |-> [router_address |-> "0x2345678901234567890123456789012345678901",
                          collateral_address |-> "0xB1c97a44F7552d9A06EE3c8c95c8F9f9d9d9d9d9"]],
   USDT |-> [ethereum |-> [router_address |-> "0x3456789012345678901234567890123456789012",
                           collateral_address |-> "0xC2da8b55G8663eAB07FF4d9d96d9G0g0e0e0e0e0"],
             polygon |-> [router_address |-> "0x4567890123456789012345678901234567890123",
                          collateral_address |-> "0xD3eb9c66H9774fBC08GG5e0e07e0H1h1f1f1f1f1"]]]

\* JavaScript falsiness of a string-or-missing value
Falsy(v) == v = Null \/ v = Undefined \/ v = ""

\* a lookup that returns the last endpoint of the list
getRpcUrl_LastEndpoint(chainName) ==
  IF chainName \notin DOMAIN chainConfig
  THEN Err("Chain '" \o chainName \o "' not found in configuration")
  ELSE IF \/ "rpc_urls" \notin DOMAIN chainConfig[chainName]
          \/ Len(chainConfig[chainName].rpc_urls) = 0
  THEN Err("No RPC URLs found for chain '" \o chainName \o "'")
  ELSE Ok(chainConfig[chainName].rpc_urls[Len(chainConfig[chainName].rpc_urls)])

getRpcUrl(chainName) ==
  IF chainName \notin DOMAIN chainConfig
  THEN Err("Chain '" \o chainName \o "' not found in configuration")
  ELSE IF \/ "rpc_urls" \notin DOMAIN chainConfig[chainName]
          \/ Len(chainConfig[chainName].rpc_urls) = 0
  THEN Err("No RPC URLs found for chain '" \o chainName \o "'")
  ELSE IF Falsy(chainConfig[chainName].rpc_urls[1])
  THEN Err("Invalid RPC URL for chain '" \o chainName \o "'")
  ELSE Ok(chainConfig[chainName].rpc_urls[1])

getDomainId(chainName) ==
  IF chainName \notin DOMAIN chainConfig
  THEN Err("Chain '" \o chainName \o "' not found in configuration")
  ELSE Ok(chainConfig[chainName].chain_id)

\* a lookup that falls back to an empty address instead of throwing
getRouterAddress_Defaulting(assetName, chainName) ==
  IF assetName \notin DOMAIN assetsConfig \/ chainName \notin DOMAIN assetsConfig[assetName]
  THEN Ok("")
  ELSE Ok(assetsConfig[assetName][chainName].router_address)

getRouterAddress(assetName, chainName) ==
  IF assetName \notin DOMAIN assetsConfig
  THEN Err("Asset '" \o assetName \o "' not found in configuration")
  ELSE IF chainName \notin DOMAIN assetsConfig[assetName]
  THEN Err("Asset '" \o assetName \o "' not available on chain '" \o chainName \o "'")
  ELSE Ok(assetsConfig[assetName][chainName].router_address)

getCollateralAddress(assetName, chainName) ==
  IF assetName \notin DOMAIN assetsConfig
  THEN Err("Asset '" \o assetName \o "' not found in configuration")
  ELSE IF chainName \notin DOMAIN assetsConfig[assetName]
  THEN Err("Asset '" \o assetName \o "' not available on chain '" \o chainName \o "'")
  ELSE Ok(assetsConfig[assetName][chainName].collateral_address)

getMailboxAddress(chainName) ==
  IF chainName \notin DOMAIN chainConfig
  THEN Err("Chain '" \o chainName \o "' not found in configuration")
  ELSE IF \/ "core_addresses" \notin DOMAIN chainConfig[chainName]
          \/ Falsy(chainConfig[chainName].core_addresses.mailbox)
  THEN Err("Mailbox address not found for chain '" \o chainName \o "'")
  ELSE Ok(chainConfig[chainName].core_addresses.mailbox)

(***************************************************************************)
(* TokenRouterService.getMessageId: the second topic of the first log of   *)
(* the receipt that the mailbox emitted and that has exactly two topics.   *)
(* A log is [address, topics]; a receipt may come without a logs field.   *)
(***************************************************************************)
\* an extraction that returns the second topic of the last matching log entry
getMessageId_LastMatch(receipt, mailboxAddress) ==
  LET logs == receipt.logs
      mailboxLogs ==
        IF "logs" \notin DOMAIN receipt THEN {}
        ELSE {k \in DOMAIN logs :
                /\ ~Falsy(logs[k].address)
                /\ toLowerCase(logs[k].address) = toLowerCase(mailboxAddress)
                /\ Len(logs[k].topics) = 2}
      last == CHOOSE k \in mailboxLogs : \A j \in mailboxLogs : k >= j
  IN IF mailboxLogs # {} THEN Ok(logs[last].topics[2])
     ELSE Err("Message ID not found in receipt.")

getMessageId(receipt, mailboxAddress) ==
  LET logs == receipt.logs
      mailboxLogs ==
        IF "logs" \notin DOMAIN receipt THEN {}
        ELSE {k \in DOMAIN logs :
                /\ ~Falsy(logs[k].address)
                /\ toLowerCase(logs[k].address) = toLowerCase(mailboxAddress)
                /\ Len(logs[k].topics) = 2}
      first == CHOOSE k \in mailboxLogs : \A j \in mailboxLogs : k <= j
  IN IF mailboxLogs # {} THEN Ok(logs[first].topics[2])
     ELSE Err("Message ID not found in receipt. This indicates an invalid mailbox address in the configuration.")

(***************************************************************************)
(* BridgeService: the synchronous validations.                             *)
(***************************************************************************)
\* a check that forgets the empty string
isNullish_EmptyAllowed(value) == value = Null \/ value = Undefined

isNullish(value) == value = Null \/ value = Undefined \/ value = ""

\* params: the entries of the object literal, in insertion order
validateRequiredParameters(params) ==
  LET bad == {i \in 1..Len(params) : isNullish(params[i][2])}
      first == CHOOSE i \in bad : \A j \in bad : i <= j
  IN IF bad = {} THEN Ok(TRUE)
     ELSE Err(params[first][1] \o " is required and cannot be empty")

RequiredParameters(req) ==
  << <<"tokenSymbol", req.tokenSymbol>>,
     <<"originChain", req.originChain>>,
     <<"destinationChain", req.destinationChain>>,
     <<"receiverAddress", req.receiverAddress>>,
     <<"senderAddressOrPrivateKey", req.senderAddressOrPrivateKey>>,
     <<"amount", req.amount>> >>

validatePositiveAmount(amount) ==
  LET numericAmount == parseFloat(amount)
  IN IF isNaN(numericAmount) \/ LessOrEqualZero(numericAmount)
     THEN Err("Amount must be a positive number")
     ELSE Ok(TRUE)

\* a comparison the wrong way round
validateChainDifference_Inverted(originChain, destinationChain) ==
  IF originChain # destinationChain
  THEN Err("Origin and destination chains must be different")
  ELSE Ok(TRUE)

validateChainDifference(originChain, destinationChain) ==
  IF originChain = destinationChain
  THEN Err("Origin and destination chains must be different")
  ELSE Ok(TRUE)

\* a receiver check that leaves the prefix optional
validateReceiverAddress_PrefixOptional(receiverAddress) ==
  IF ~isAddress(receiverAddress)
  THEN Err("Receiver address must be a valid Ethereum address")
  ELSE Ok(TRUE)

validateReceiverAddress(receiverAddress) ==
  IF ~isAddress(receiverAddress) \/ ~startsWith(receiverAddress, "0x")
  THEN Err("Receiver address must be a valid Ethereum address")
  ELSE Ok(TRUE)

\* a resolution that treats every credential as a private key
validateAndResolveSenderAddress_AlwaysDerive(senderAddressOrPrivateKey) ==
  IF Wallet(senderAddressOrPrivateKey).ok
  THEN Ok(Wallet(senderAddressOrPrivateKey).val)
  ELSE Err("Invalid sender address or private key")

validateAndResolveSenderAddress(senderAddressOrPrivateKey) ==
  IF isAddress(senderAddressOrPrivateKey) THEN Ok(senderAddressOrPrivateKey)
  ELSE IF Wallet(senderAddressOrPrivateKey).ok
  THEN Ok(Wallet(senderAddressOrPrivateKey).val)
  ELSE Err("Invalid sender address or private key")

\* The first failure of a sequence of step results, or the last result.
FirstFailure(results) ==
  LET bad == {i \in 1..Len(results) : ~results[i].ok}
  IN IF bad = {} THEN results[Len(results)]
     ELSE results[CHOOSE i \in bad : \A j \in bad : i <= j]

(***************************************************************************)
(* State.                                                                  *)
(*   chain : the on-chain state the gateways read on the origin chain:     *)
(*           the value routers(domain) returns, the router-reported token  *)
(*           balance and the native balance of the sender, the sender's    *)
(*           allowance to the router, the token's decimals and the fee     *)
(*           the router quotes.                                            *)
(*   inv   : the invocation in progress: its request, its position in the  *)
(*           pipeline, its local variables and its outcome.                *)
(*   calls : the RPC calls the invocation has issued, in order.            *)
(*   txs   : the transactions the invocation has submitted, in order.      *)
(***************************************************************************)
VARIABLES chain, inv, calls, txs

vars == <<chain, inv, calls, txs>>

ETH == "ETH"
WEI == "WEI"

EnrolledRouter == "0x" \o Rep("0", Bytes32HexLength - AddressHexLength)
                       \o "2345678901234567890123456789012345678901"

\* what routers(domain) may return: nothing, the zero address, the zero
\* word of the bytes32 return type, or an enrolled router
RouterValues == {"", ZeroAddress, ZeroBytes32, EnrolledRouter}

ChainStates ==
  [remoteRouter : RouterValues,
   balance : 0..MaxBalance,
   native : 0..MaxNative,
   allowance : 0..MaxAllowance,
   decimals : 0..MaxDecimals,
   gasPayment : 0..MaxNative]

RpcError == "Network error"

(***************************************************************************)
(* Requests.                                                               *)
(***************************************************************************)
ValidPrivateKey == "0x0123456789abcdef0123456789abcdef0123456789abcdef0123456789abcdef"

BaseRequest ==
  [tokenSymbol |-> "USDC",
   originChain |-> "ethereum",
   destinationChain |-> "polygon",
   receiverAddress |-> "0xd8dA6BF26964aF9D7eEd9e03E53415D37aA96045",
   amount |-> "1",
   amountUnit |-> ETH,
   senderAddressOrPrivateKey |-> "0x1234567890123456789012345678901234567890"]

Alternatives ==
  [tokenSymbol |-> {"", Null, Undefined, "DAI"},
   originChain |-> {"", Null, Undefined, "unknown", "emptyRpc"},
   destinationChain |-> {"", Null, Undefined, "ethereum", "unknown"},
   receiverAddress |-> {"", Null, Undefined, "0x123",
                        "d8dA6BF26964aF9D7eEd9e03E53415D37aA96045"},
   amount |-> {"", Null, Undefined, "0", "-1", "abc", "Infinity", "1.5", "2", "1abc"},
   amountUnit |-> {WEI},
   senderAddressOrPrivateKey |-> {"", Null, Undefined, "0x123", "invalid_private_key",
                                  ValidPrivateKey}]

\* the base request with one field replaced
SingleFaultRequests ==
  {[BaseRequest EXCEPT ![f] = v] : <<f, v>> \in
      UNION {{<<g, w>> : w \in Alternatives[g]} : g \in DOMAIN Alternatives}}

\* requests in which any subset of the five input validations fails
MultiFaultRequests ==
  [tokenSymbol : {"USDC", ""},
   originChain : {"ethereum"},
   destinationChain : {"polygon", "ethereum"},
   receiverAddress : {BaseRequest.receiverAddress, "0x123"},
   amount : {"1", "0"},
   amountUnit : {ETH},
   senderAddressOrPrivateKey : {BaseRequest.senderAddressOrPrivateKey, "invalid_private_key"}]

\* base-unit requests with the amounts that pass the amount sanity step
BaseUnitRequests ==
  {[BaseRequest EXCEPT !.amount = a, !.amountUnit = WEI] :
     a \in {"2", "1.5", "Infinity", "1abc"}}

\* requests in which two required fields are missing
TwoMissingRequests ==
  {[BaseRequest EXCEPT !.tokenSymbol = Null, !.amount = ""],
   [BaseRequest EXCEPT !.originChain = Undefined, !.senderAddressOrPrivateKey = ""],
   [BaseRequest EXCEPT !.destinationChain = "", !.receiverAddress = Null]}

\* equal chain names with an unconfigured token, an unconfigured chain
SameChainRequests ==
  {[BaseRequest EXCEPT !.tokenSymbol = "DAI", !.destinationChain = "ethereum"],
   [BaseRequest EXCEPT !.originChain = "unknown", !.destinationChain = "unknown"]}

\* requests of transferToken; the credential is its privateKey parameter
KeyRequest == [BaseRequest EXCEPT !.senderAddressOrPrivateKey = ValidPrivateKey]

TransferRequests ==
  {KeyRequest, BaseRequest,
   [KeyRequest EXCEPT !.amountUnit = WEI],
   [KeyRequest EXCEPT !.amountUnit = WEI, !.amount = "1.5"],
   [KeyRequest EXCEPT !.amountUnit = WEI, !.amount = "1.0"],
   [KeyRequest EXCEPT !.originChain = "polygon", !.destinationChain = "ethereum"],
   [KeyRequest EXCEPT !.destinationChain = "ethereum"],
   [KeyRequest EXCEPT !.tokenSymbol = "DAI"],
   [KeyRequest EXCEPT !.tokenSymbol = ""],
   [KeyRequest EXCEPT !.amount = "0"],
   [KeyRequest EXCEPT !.receiverAddress = "0x123"],
   [KeyRequest EXCEPT !.senderAddressOrPrivateKey = "invalid_private_key"]}
  \cup {[KeyRequest EXCEPT !.originChain = c] : c \in {"unknown", "emptyRpc", "nullRpc", "noRpc"}}

Requests ==
  {BaseRequest} \cup SingleFaultRequests \cup MultiFaultRequests \cup BaseUnitRequests
    \cup TwoMissingRequests \cup SameChainRequests

NoRequest ==
  [tokenSymbol |-> "", originChain |-> "", destinationChain |-> "", receiverAddress |-> "",
   amount |-> "", amountUnit |-> "", senderAddressOrPrivateKey |-> ""]

IdleInvocation ==
  [op |-> "idle", impl |-> "", req |-> NoRequest, status |-> "idle", pc |-> 0,
   senderAddress |-> "", destinationDomainId |-> 0, destinationRouterAddress |-> "",
   senderTokenBalance |-> "", tokenDecimals |-> 0, amountInWei |-> 0,
   bridgeFee |-> "", senderNativeBalance |-> 0,
   value |-> FALSE, message |-> "",
   prechecked |-> FALSE, routerAddress |-> "", allowance |-> 0, allowanceDecimals |-> 0,
   currentAllowance |-> "", approving |-> FALSE, approveDecimals |-> 0, finalAmount |-> 0,
   gasQuote |-> "", recipientBytes32 |-> "", transactionHash |-> "", messageId |-> ""]

(***************************************************************************)
(* The three revisions of precheckTransferToken kept in the repository:    *)
(* the inline one, the one built from helpers and the refactored one.      *)
(* Each is a synchronous validation prefix followed by a pipeline of       *)
(* steps; a step is either an RPC read (its own action) or a computation.  *)
(***************************************************************************)
INLINE == "inline"
HELPERS == "helpers"
REFACTORED == "refactored"

ReadOps == {"routers", "balanceOf", "getDecimals", "quoteGasPayment", "getBalance"}

\* transferToken: its reads of the allowance and its two signed transactions
TRANSFER == "transferToken"
AllowanceOps == {"allowance", "allowanceDecimals", "approveDecimals"}
WriteOps == {"approve", "transferRemote"}

PrecheckInlineValidation(req) ==
  FirstFailure(<<validateRequiredParameters(RequiredParameters(req)),
                 validatePositiveAmount(req.amount),
                 validateChainDifference(req.originChain, req.destinationChain),
                 validateReceiverAddress(req.receiverAddress),
                 validateAndResolveSenderAddress(req.senderAddressOrPrivateKey)>>)

PrecheckInlinePipeline(req) ==
  <<"getDomainId", "routers", "checkRouter", "balanceOf", "getDecimals", "parseUnits",
    "checkTokenBalance", "quoteGasPayment", "getBalance", "checkNativeBalance">>

\* validateInputParameters of the helper-based and refactored revisions
validateInputParameters(req) ==
  FirstFailure(<<validateRequiredParameters(RequiredParameters(req)),
                 validatePositiveAmount(req.amount)>>)

PrecheckHelpersValidation(req) ==
  FirstFailure(<<validateInputParameters(req),
                 validateChainDifference(req.originChain, req.destinationChain),
                 validateReceiverAddress(req.receiverAddress),
                 validateAndResolveSenderAddress(req.senderAddressOrPrivateKey)>>)

\* convertTokenAmountToWei fetches the decimals only for a human-readable amount
PrecheckHelpersPipeline(req) ==
  <<"getDomainId", "routers", "checkRouter">>
  \o (IF req.amountUnit = WEI THEN <<>> ELSE <<"getDecimals">>)
  \o <<"parseUnits", "balanceOf", "checkTokenBalance",
       "quoteGasPayment", "getBalance", "checkNativeBalance">>

\* the refactored revision resolves the sender before it validates the
\* receiver and the chains; a failing earlier step hides the sender
PrecheckRefactoredValidation(req) ==
  LET sender == validateAndResolveSenderAddress(req.senderAddressOrPrivateKey)
      r == FirstFailure(<<validateInputParameters(req),
                          sender,
                          validateReceiverAddress(req.receiverAddress),
                          validateChainDifference(req.originChain, req.destinationChain)>>)
  IN IF r.ok THEN sender ELSE r

PrecheckRefactoredPipeline(req) ==
  <<"getDomainId", "routers", "checkRouter", "getDecimals", "parseUnits", "balanceOf",
    "checkTokenBalance", "quoteGasPayment", "getBalance", "checkNativeBalance">>

\* a transfer that also refuses equal chains
TransferValidation_ChainChecked(req) ==
  LET sender == validateAndResolveSenderAddress(req.senderAddressOrPrivateKey)
      r == FirstFailure(<<validateInputParameters(req),
                          validateChainDifference(req.originChain, req.destinationChain),
                          validateReceiverAddress(req.receiverAddress),
                          sender>>)
  IN IF r.ok THEN sender ELSE r

\* transferToken has no chain-distinctness step
TransferValidation(req) ==
  LET sender == validateAndResolveSenderAddress(req.senderAddressOrPrivateKey)
      r == FirstFailure(<<validateInputParameters(req),
                          validateReceiverAddress(req.receiverAddress),
                          sender>>)
  IN IF r.ok THEN sender ELSE r

\* ERC20Service.approve and its steps run only when the allowance falls short
ApprovePipeline(req) ==
  <<"approveConfig">>
  \o (IF req.amountUnit = WEI THEN <<>> ELSE <<"approveDecimals">>)
  \o <<"approveAmount", "approve">>

TransferPipeline(req, approving) ==
  (IF req.amountUnit = WEI THEN <<>> ELSE <<"getDecimals">>)
  \o <<"parseUnits", "getRouterAddress", "allowance">>
  \o (IF req.amountUnit = WEI THEN <<>> ELSE <<"allowanceDecimals">>)
  \o <<"formatAllowance", "compareAllowance">>
  \o (IF approving THEN ApprovePipeline(req) ELSE <<>>)
  \o <<"quoteGasPayment", "zeroPadValue", "transferRemote">>

Pipeline(i) ==
  CASE i.impl = INLINE -> PrecheckInlinePipeline(i.req)
    [] i.impl = HELPERS -> PrecheckHelpersPipeline(i.req)
    [] i.impl = REFACTORED -> PrecheckRefactoredPipeline(i.req)
    [] i.impl = TRANSFER -> TransferPipeline(i.req, i.approving)

\* a catch that rethrows the cause as it is
PrecheckCatch_Rethrow(i, message) ==
  [i EXCEPT !.status = "thrown", !.message = message]

\* catch (error) { throw new Error(`Transfer precheck failed: ${error.message}`) }
PrecheckCatch(i, message) ==
  [i EXCEPT !.status = "thrown", !.message = "Transfer precheck failed: " \o message]

\* an error thrown inside the invocation reaches the catch of its operation;
\* transferToken has none and its errors reach the caller as they are
Throw(i, message) ==
  IF i.op = "transfer" THEN [i EXCEPT !.status = "thrown", !.message = message]
  ELSE PrecheckCatch(i, message)

Advance(i) == [i EXCEPT !.pc = @ + 1]

\* the ternary that selects the decimals of the conversion
ConversionDecimals(i) == IF i.req.amountUnit = ETH THEN i.tokenDecimals ELSE 0

InsufficientBalanceMessage(i) ==
  "Insufficient balance for " \o i.req.tokenSymbol \o ": sender has "
    \o i.senderTokenBalance \o " wei but trying to transfer "
    \o ToString(i.amountInWei) \o " wei"

InsufficientNativeMessage(i) ==
  "Insufficient native balance for gas payment: sender has "
    \o formatEther(i.senderNativeBalance) \o " ETH but needs "
    \o formatEther(BigInt(i.bridgeFee)) \o " ETH"

NoRouterMessage(i) ==
  "No router available for " \o i.req.tokenSymbol \o " on destination chain "
    \o i.req.destinationChain \o " (domain " \o ToString(i.destinationDomainId) \o ")"

\* if (!destinationRouterAddress || destinationRouterAddress === ethers.ZeroAddress)
NoRouter(destinationRouterAddress) ==
  Falsy(destinationRouterAddress) \/ destinationRouterAddress = ZeroAddress

\* a comparison that also rejects a balance equal to the amount
InsufficientTokenBalance_OrEqual(senderTokenBalance, amountInWei) ==
  BigInt(senderTokenBalance) <= amountInWei

\* if (BigInt(senderTokenBalance) < amountInWei)
InsufficientTokenBalance(senderTokenBalance, amountInWei) ==
  BigInt(senderTokenBalance) < amountInWei

\* a comparison that also rejects a balance equal to the fee
InsufficientNativeBalance_OrEqual(senderNativeBalance, bridgeFee) ==
  senderNativeBalance <= BigInt(bridgeFee)

\* if (BigInt(senderNativeBalance) < BigInt(bridgeFee))
InsufficientNativeBalance(senderNativeBalance, bridgeFee) ==
  senderNativeBalance < BigInt(bridgeFee)

\* ERC20Service.convertAmount from base units to the unit of the request
convertAmountFromWei(amount, outputUnit, decimals) ==
  IF outputUnit = WEI THEN ToString(amount) ELSE formatUnits(amount, decimals)

\* a conversion to base units that leaves the decimals of the token out
convertAmountToWei_Unscaled(amount, inputUnit, decimals) ==
  IF inputUnit = WEI THEN BigIntOfString(amount) ELSE parseUnits(amount, 0)

\* ERC20Service.convertAmount from the unit of the request to base units
convertAmountToWei(amount, inputUnit, decimals) ==
  IF inputUnit = WEI THEN BigIntOfString(amount) ELSE parseUnits(amount, decimals)

\* if (currentAllowanceNum >= transferAmountNum)
AllowanceSufficient(currentAllowance, amount) ==
  GreaterOrEqual(parseFloat(currentAllowance), parseFloat(amount))

\* the configuration lookups and the try block of ERC20Service.approve up to the signer
approveConfig(i) ==
  FirstFailure(<<getRpcUrl(i.req.originChain),
                 getCollateralAddress(i.req.tokenSymbol, i.req.originChain)>>)

approveAmount(i) ==
  LET finalAmount == convertAmountToWei(i.req.amount, i.req.amountUnit, i.approveDecimals)
      signer == Wallet(i.req.senderAddressOrPrivateKey)
      r == FirstFailure(<<finalAmount, signer>>)
  IN IF r.ok THEN finalAmount ELSE Err("Failed to approve token: " \o r.err)

\* the computations between two reads
Compute(op, i) ==
  CASE op = "getDomainId" ->
         LET d == getDomainId(i.req.destinationChain)
         IN IF d.ok THEN Advance([i EXCEPT !.destinationDomainId = d.val])
            ELSE Throw(i, d.err)
    [] op = "checkRouter" ->
         IF NoRouter(i.destinationRouterAddress)
         THEN Throw(i, NoRouterMessage(i))
         ELSE Advance(i)
    [] op = "parseUnits" ->
         LET a == parseUnits(i.req.amount, ConversionDecimals(i))
         IN IF a.ok THEN Advance([i EXCEPT !.amountInWei = a.val])
            ELSE Throw(i, a.err)
    [] op = "checkTokenBalance" ->
         IF InsufficientTokenBalance(i.senderTokenBalance, i.amountInWei)
         THEN Throw(i, InsufficientBalanceMessage(i))
         ELSE Advance(i)
    [] op = "checkNativeBalance" ->
         IF InsufficientNativeBalance(i.senderNativeBalance, i.bridgeFee)
         THEN Throw(i, InsufficientNativeMessage(i))
         ELSE Advance(i)
    [] op = "getRouterAddress" ->
         LET r == getRouterAddress(i.req.tokenSymbol, i.req.originChain)
         IN IF r.ok THEN Advance([i EXCEPT !.routerAddress = r.val])
            ELSE Throw(i, r.err)
    [] op = "formatAllowance" ->
         Advance([i EXCEPT !.currentAllowance =
                    convertAmountFromWei(i.allowance, i.req.amountUnit, i.allowanceDecimals)])
    [] op = "compareAllowance" ->
         Advance([i EXCEPT !.approving = ~AllowanceSufficient(i.currentAllowance, i.req.amount)])
    [] op = "approveConfig" ->
         LET c == approveConfig(i)
         IN IF c.ok THEN Advance(i) ELSE Throw(i, c.err)
    [] op = "approveAmount" ->
         LET a == approveAmount(i)
         IN IF a.ok THEN Advance([i EXCEPT !.finalAmount = a.val])
            ELSE Throw(i, a.err)
    [] op = "zeroPadValue" ->
         Advance([i EXCEPT !.recipientBytes32 = zeroPadValue(i.req.receiverAddress, 32)])

\* run the computations up to the next read, or to the end: return true
RECURSIVE Run(_)
Run(i) ==
  IF i.status # "running" THEN i
  ELSE IF i.pc > Len(Pipeline(i))
  THEN [i EXCEPT !.status = "returned", !.value = (i.op = "precheck")]
  ELSE IF Pipeline(i)[i.pc] \in ReadOps \cup AllowanceOps \cup WriteOps THEN i
  ELSE Run(Compute(Pipeline(i)[i.pc], i))

\* an entry that checks only the required fields before it starts its reads
Enter_ValidatingLate(impl, req, validation) ==
  LET i == [IdleInvocation EXCEPT !.op = "precheck", !.impl = impl, !.req = req,
                                  !.status = "running", !.pc = 1]
      required == validateRequiredParameters(RequiredParameters(req))
  IN IF required.ok
     THEN Run([i EXCEPT !.senderAddress = IF validation.ok THEN validation.val
                                          ELSE req.senderAddressOrPrivateKey])
     ELSE PrecheckCatch(i, required.err)

\* entry of an invocation: validate, then run to the first read
Enter(impl, req, validation) ==
  LET i == [IdleInvocation EXCEPT !.op = "precheck", !.impl = impl, !.req = req,
                                  !.status = "running", !.pc = 1]
  IN IF validation.ok THEN Run([i EXCEPT !.senderAddress = validation.val])
     ELSE PrecheckCatch(i, validation.err)

(***************************************************************************)
(* The gateways.  A gateway resolves its configuration, issues one RPC     *)
(* read and wraps any failure; it yields the call it issued (none when     *)
(* the configuration lookup failed) and the value or the error.            *)
(***************************************************************************)
RpcCall(fn, rpcUrl, contract, arg) ==
  <<[fn |-> fn, rpcUrl |-> rpcUrl, contract |-> contract, arg |-> arg]>>

routers(tokenSymbol, chainName, domainId, rpcFails) ==
  LET rpcUrl == getRpcUrl(chainName)
      routerContractAddress == getRouterAddress(tokenSymbol, chainName)
      config == FirstFailure(<<rpcUrl, routerContractAddress>>)
  IN IF ~config.ok
     THEN [call |-> <<>>, res |-> Err("Failed to get router address: " \o config.err)]
     ELSE [call |-> RpcCall("routers", rpcUrl.val, routerContractAddress.val, ToString(domainId)),
           res |-> IF rpcFails
                   THEN Err("Failed to get router address: "
                              \o "Failed to get router address: " \o RpcError)
                   ELSE Ok(chain.remoteRouter)]

balanceOf(tokenSymbol, chainName, account, rpcFails) ==
  LET rpcUrl == getRpcUrl(chainName)
      routerContractAddress == getRouterAddress(tokenSymbol, chainName)
      config == FirstFailure(<<rpcUrl, routerContractAddress>>)
  IN IF ~config.ok
     THEN [call |-> <<>>, res |-> Err("Failed to get balance: " \o config.err)]
     ELSE [call |-> RpcCall("balanceOf", rpcUrl.val, routerContractAddress.val, account),
           res |-> IF rpcFails
                   THEN Err("Failed to get balance: " \o "Failed to get balance: " \o RpcError)
                   ELSE Ok(ToString(chain.balance))]

quoteGasPayment(tokenSymbol, sourceChainName, destinationChainName, rpcFails) ==
  LET rpcUrl == getRpcUrl(sourceChainName)
      routerContractAddress == getRouterAddress(tokenSymbol, sourceChainName)
      destinationDomainId == getDomainId(destinationChainName)
      config == FirstFailure(<<rpcUrl, routerContractAddress, destinationDomainId>>)
  IN IF ~config.ok
     THEN [call |-> <<>>, res |-> Err("Failed to quote gas payment: " \o config.err)]
     ELSE [call |-> RpcCall("quoteGasPayment", rpcUrl.val, routerContractAddress.val,
                            ToString(destinationDomainId.val)),
           res |-> IF rpcFails
                   THEN Err("Failed to quote gas payment: "
                              \o "Failed to quote gas payment: " \o RpcError)
                   ELSE Ok(ToString(chain.gasPayment))]

\* ERC20Service.getDecimals: the configuration lookups are outside its try
getDecimals(tokenSymbol, chainName, rpcFails) ==
  LET rpcUrl == getRpcUrl(chainName)
      tokenContractAddress == getCollateralAddress(tokenSymbol, chainName)
      config == FirstFailure(<<rpcUrl, tokenContractAddress>>)
  IN IF ~config.ok
     THEN [call |-> <<>>, res |-> Err(config.err)]
     ELSE [call |-> RpcCall("decimals", rpcUrl.val, tokenContractAddress.val, ""),
           res |-> IF rpcFails
                   THEN Err("Failed to get token decimals: "
                              \o "Failed to get token decimals: " \o RpcError)
                   ELSE Ok(chain.decimals)]

\* new ethers.JsonRpcProvider(ConfigUtil.getRpcUrl(originChain)).getBalance(sender)
getBalance(chainName, account, rpcFails) ==
  LET originRpcUrl == getRpcUrl(chainName)
  IN IF ~originRpcUrl.ok
     THEN [call |-> <<>>, res |-> Err(originRpcUrl.err)]
     ELSE [call |-> RpcCall("getBalance", originRpcUrl.val, "", account),
           res |-> IF rpcFails THEN Err(RpcError) ELSE Ok(chain.native)]

\* ERC20Service.getAllowance up to the value of the caller: the
\* configuration lookups are outside its try, the caller wraps once more
getAllowance(tokenSymbol, chainName, ownerAddress, spenderAddress, rpcFails) ==
  LET rpcUrl == getRpcUrl(chainName)
      tokenContractAddress == getCollateralAddress(tokenSymbol, chainName)
      config == FirstFailure(<<rpcUrl, tokenContractAddress>>)
  IN IF ~config.ok
     THEN [call |-> <<>>, res |-> Err(config.err)]
     ELSE [call |-> RpcCall("allowance", rpcUrl.val, tokenContractAddress.val,
                            ownerAddress \o "," \o spenderAddress),
           res |-> IF rpcFails
                   THEN Err("Failed to get token allowance: "
                              \o "Failed to get token allowance: " \o RpcError)
                   ELSE Ok(chain.allowance)]

\* ERC20Service.handleError around a read issued inside a try block
handleError(g, operation) ==
  [call |-> g.call,
   res |-> IF g.res.ok THEN g.res ELSE Err("Failed to " \o operation \o ": " \o g.res.err)]

(***************************************************************************)
(* Signed transactions.  A transaction is rejected before it is mined,     *)
(* reverted when it is mined, or confirmed; the token contract confirms a  *)
(* transfer only within the sender's balance, allowance and native funds.  *)
(***************************************************************************)
SendError == "could not send transaction"
RevertError == "transaction execution reverted"
Outcomes == {"rejected", "reverted", "confirmed"}

Transaction(fn, rpcUrl, to, from, args, outcome, receipt) ==
  [fn |-> fn, rpcUrl |-> rpcUrl, to |-> to, from |-> from, args |-> args,
   outcome |-> outcome, receipt |-> receipt]

\* tx.hash of the k-th transaction of the invocation
TxHash(k) == "0x" \o Rep(ToString(k), Bytes32HexLength)

Mailbox == chainConfig["ethereum"].core_addresses.mailbox
OtherContract == "0x1111111111111111111111111111111111111111"
DispatchTopic == "0x" \o Rep("d", Bytes32HexLength)
MessageIds == [k \in 1..2 |-> "0x" \o Rep(ToString(k), Bytes32HexLength)]

Log(address, topics) == [address |-> address, topics |-> topics]

\* the receipts a mined transferRemote can carry
Receipts ==
  {[status |-> 1],
   [status |-> 1, logs |-> <<>>],
   [status |-> 1, logs |-> <<Log(OtherContract, <<DispatchTopic, MessageIds[2]>>)>>],
   [status |-> 1, logs |-> <<Log(Mailbox, <<DispatchTopic, MessageIds[1]>>)>>],
   [status |-> 1, logs |-> <<Log(Null, <<DispatchTopic, MessageIds[2]>>),
                             Log(OtherContract, <<DispatchTopic, MessageIds[2]>>),
                             Log(Mailbox, <<DispatchTopic>>),
                             Log(toLowerCase(Mailbox), <<DispatchTopic, MessageIds[1]>>),
                             Log(Mailbox, <<DispatchTopic, MessageIds[2]>>)>>],
   [status |-> 1, logs |-> <<Log(Mailbox, <<DispatchTopic, MessageIds[1], MessageIds[2]>>)>>]}

NoReceipt == [status |-> 0]

\* an extraction that takes the second topic of the first log entry, whoever emitted it
extractMessageId_AnyEmitter(receipt, sourceChainName) ==
  IF "logs" \in DOMAIN receipt /\ Len(receipt.logs) > 0 /\ Len(receipt.logs[1].topics) >= 2
  THEN receipt.logs[1].topics[2]
  ELSE ""

\* the inner try of TokenRouterService.transferRemote: any failure yields ''
extractMessageId(receipt, sourceChainName) ==
  LET mailboxAddress == getMailboxAddress(sourceChainName)
      messageId == getMessageId(receipt, mailboxAddress.val)
  IN IF mailboxAddress.ok /\ messageId.ok THEN messageId.val ELSE ""

\* the outer try of TokenRouterService.transferRemote up to the signer
transferRemoteConfig(i) ==
  LET r == FirstFailure(<<getRpcUrl(i.req.originChain),
                          getRouterAddress(i.req.tokenSymbol, i.req.originChain),
                          getDomainId(i.req.destinationChain),
                          Wallet(i.req.senderAddressOrPrivateKey)>>)
  IN IF r.ok THEN r ELSE Err("Failed to transfer tokens: " \o r.err)

\* what the token and router contracts require of a transferRemote
Mineable(amount, value) ==
  /\ chain.balance >= amount
  /\ chain.allowance >= amount
  /\ chain.native >= value

(***************************************************************************)
(* Actions.                                                                *)
(***************************************************************************)
Init ==
  /\ chain \in ChainStates
  /\ inv = IdleInvocation
  /\ calls = <<>>
  /\ txs = <<>>

precheckTransferToken ==
  /\ inv.status = "idle"
  /\ \E req \in Requests : inv' = Enter(INLINE, req, PrecheckInlineValidation(req))
  /\ UNCHANGED <<chain, calls, txs>>

precheckTransferTokenHelpers ==
  /\ inv.status = "idle"
  /\ \E req \in Requests : inv' = Enter(HELPERS, req, PrecheckHelpersValidation(req))
  /\ UNCHANGED <<chain, calls, txs>>

precheckTransferTokenRefactored ==
  /\ inv.status = "idle"
  /\ \E req \in Requests : inv' = Enter(REFACTORED, req, PrecheckRefactoredValidation(req))
  /\ UNCHANGED <<chain, calls, txs>>

\* transferToken is called on a fresh request, or on the request the
\* caller has just prechecked
transferToken ==
  /\ inv.status = "idle"
  /\ \E req \in (IF inv.prechecked THEN {inv.req} ELSE TransferRequests) :
       LET validation == TransferValidation(req)
           i == [IdleInvocation EXCEPT !.op = "transfer", !.impl = TRANSFER, !.req = req,
                                       !.status = "running", !.pc = 1,
                                       !.prechecked = inv.prechecked]
       IN inv' = IF validation.ok THEN Run([i EXCEPT !.senderAddress = validation.val])
                 ELSE Throw(i, validation.err)
  /\ UNCHANGED <<chain, calls, txs>>

AtRead(op) == inv.status = "running" /\ Pipeline(inv)[inv.pc] = op

\* an await that takes the granted allowance back when the read failed
Await_Revoking(g, local) ==
  /\ calls' = calls \o g.call
  /\ inv' = IF g.res.ok THEN Run(Advance([inv EXCEPT ![local] = g.res.val]))
            ELSE Throw(inv, g.res.err)
  /\ chain' = IF ~g.res.ok /\ txs # <<>> THEN [chain EXCEPT !.allowance = 0] ELSE chain
  /\ UNCHANGED txs

\* an await that issues the read again when it failed
Await_Retrying(g, local) ==
  /\ calls' = calls \o g.call
  /\ inv' = IF g.res.ok THEN Run(Advance([inv EXCEPT ![local] = g.res.val])) ELSE inv
  /\ UNCHANGED <<chain, txs>>

\* the awaited read completes: its value is stored and the run continues,
\* or its error is thrown
Await(g, local) ==
  /\ calls' = calls \o g.call
  /\ inv' = IF g.res.ok THEN Run(Advance([inv EXCEPT ![local] = g.res.val]))
            ELSE Throw(inv, g.res.err)
  /\ UNCHANGED <<chain, txs>>

ReadRouters ==
  /\ AtRead("routers")
  /\ \E rpcFails \in BOOLEAN :
       Await(routers(inv.req.tokenSymbol, inv.req.originChain,
                     inv.destinationDomainId, rpcFails),
             "destinationRouterAddress")

\* a balance query that moves the tokens it looks at
ReadBalanceOf_Spending ==
  /\ AtRead("balanceOf")
  /\ chain' = [chain EXCEPT !.balance = 0]
  /\ calls' = calls
  /\ inv' = Run(Advance([inv EXCEPT !.senderTokenBalance = ToString(chain.balance)]))
  /\ UNCHANGED txs

ReadBalanceOf ==
  /\ AtRead("balanceOf")
  /\ \E rpcFails \in BOOLEAN :
       Await(balanceOf(inv.req.tokenSymbol, inv.req.originChain, inv.senderAddress, rpcFails),
             "senderTokenBalance")

ReadDecimals ==
  /\ AtRead("getDecimals")
  /\ \E rpcFails \in BOOLEAN :
       Await(getDecimals(inv.req.tokenSymbol, inv.req.originChain, rpcFails),
             "tokenDecimals")

ReadQuoteGasPayment ==
  /\ AtRead("quoteGasPayment")
  /\ \E rpcFails \in BOOLEAN :
       Await(quoteGasPayment(inv.req.tokenSymbol, inv.req.originChain,
                             inv.req.destinationChain, rpcFails),
             IF inv.op = "transfer" THEN "gasQuote" ELSE "bridgeFee")

ReadNativeBalance ==
  /\ AtRead("getBalance")
  /\ \E rpcFails \in BOOLEAN :
       Await(getBalance(inv.req.originChain, inv.senderAddress, rpcFails),
             "senderNativeBalance")

ReadAllowance ==
  /\ AtRead("allowance")
  /\ \E rpcFails \in BOOLEAN :
       Await(getAllowance(inv.req.tokenSymbol, inv.req.originChain, inv.senderAddress,
                          inv.routerAddress, rpcFails),
             "allowance")

\* convertAmount inside the try of ERC20Service.getAllowance
ReadAllowanceDecimals ==
  /\ AtRead("allowanceDecimals")
  /\ \E rpcFails \in BOOLEAN :
       Await(handleError(getDecimals(inv.req.tokenSymbol, inv.req.originChain, rpcFails),
                         "get token allowance"),
             "allowanceDecimals")

\* convertAmount inside the try of ERC20Service.approve
ReadApproveDecimals ==
  /\ AtRead("approveDecimals")
  /\ \E rpcFails \in BOOLEAN :
       Await(handleError(getDecimals(inv.req.tokenSymbol, inv.req.originChain, rpcFails),
                         "approve token"),
             "approveDecimals")

\* the signed transaction is recorded with its outcome; a failure is thrown
\* with the prefix of the caller and of the service
Submit(tx, operation, confirmed) ==
  /\ txs' = Append(txs, tx)
  /\ inv' = CASE tx.outcome = "confirmed" -> Run(Advance(confirmed))
              [] tx.outcome = "rejected" ->
                   Throw(inv, "Failed to " \o operation \o ": Failed to " \o operation
                                \o ": " \o SendError)
              [] tx.outcome = "reverted" ->
                   Throw(inv, "Failed to " \o operation \o ": Failed to " \o operation
                                \o ": " \o RevertError)
  /\ UNCHANGED calls

\* an approve that grants an unlimited allowance
ApprovedAmount_Unlimited(finalAmount) == 2147483647

\* tokenContract.approve(spenderAddress, amountInWei)
ApprovedAmount(finalAmount) == finalAmount

\* ERC20Caller.approve: tokenContract.approve(spender, amount), then tx.wait()
SubmitApprove ==
  /\ AtRead("approve")
  /\ \E outcome \in Outcomes :
       LET granted == ApprovedAmount(inv.finalAmount)
           tx == Transaction("approve", getRpcUrl(inv.req.originChain).val,
                             getCollateralAddress(inv.req.tokenSymbol, inv.req.originChain).val,
                             Wallet(inv.req.senderAddressOrPrivateKey).val,
                             <<inv.routerAddress, granted>>, outcome, NoReceipt)
       IN /\ Submit(tx, "approve token", inv)
          /\ chain' = IF outcome = "confirmed" THEN [chain EXCEPT !.allowance = granted]
                      ELSE chain

\* a transfer that reads the balances of the sender before it submits
SubmitTransferRemote_BalanceChecked ==
  /\ AtRead("transferRemote")
  /\ calls' = calls \o RpcCall("balanceOf", getRpcUrl(inv.req.originChain).val,
                               getRouterAddress(inv.req.tokenSymbol, inv.req.originChain).val,
                               inv.senderAddress)
  /\ inv' = IF chain.balance < inv.amountInWei
            THEN Throw(inv, "Failed to transfer tokens: insufficient balance")
            ELSE Run(Advance(inv))
  /\ UNCHANGED <<chain, txs>>

\* a transfer that looks at the allowance and the balances once more and
\* gives up without submitting when they fall short
SubmitTransferRemote_Rechecking ==
  /\ AtRead("transferRemote")
  /\ ~Mineable(inv.amountInWei, BigInt(inv.gasQuote))
  /\ inv' = Throw(inv, "Failed to transfer tokens: insufficient allowance or balance")
  /\ UNCHANGED <<chain, calls, txs>>

\* TokenRouterService.transferRemote: configuration and signer, then
\* contract.transferRemote(domain, recipient, amount, {value}) and tx.wait()
SubmitTransferRemote ==
  /\ AtRead("transferRemote")
  /\ LET c == transferRemoteConfig(inv)
         value == BigInt(inv.gasQuote)
     IN IF ~c.ok
        THEN /\ inv' = Throw(inv, c.err)
             /\ UNCHANGED <<chain, calls, txs>>
        ELSE \E outcome \in Outcomes, receipt \in Receipts \cup {NoReceipt} :
               LET tx == Transaction("transferRemote", getRpcUrl(inv.req.originChain).val,
                                     getRouterAddress(inv.req.tokenSymbol, inv.req.originChain).val,
                                     Wallet(inv.req.senderAddressOrPrivateKey).val,
                                     <<getDomainId(inv.req.destinationChain).val,
                                       inv.recipientBytes32, inv.amountInWei, value>>,
                                     outcome, receipt)
               IN /\ (outcome = "confirmed") <=> (receipt \in Receipts)
                  /\ outcome = "confirmed" => Mineable(inv.amountInWei, value)
                  /\ Submit(tx, "transfer tokens",
                            [inv EXCEPT !.transactionHash = TxHash(Len(txs) + 1),
                                        !.messageId = extractMessageId(receipt,
                                                                       inv.req.originChain)])
                  /\ chain' = IF outcome = "confirmed"
                              THEN [chain EXCEPT !.balance = @ - inv.amountInWei,
                                                 !.allowance = @ - inv.amountInWei,
                                                 !.native = @ - value]
                              ELSE chain

\* the caller keeps the request that passed the precheck for its transfer
FinishPrecheck ==
  /\ inv.op = "precheck" /\ inv.status = "returned" /\ inv.value = TRUE
  /\ inv.req \in TransferRequests
  /\ inv' = [IdleInvocation EXCEPT !.req = inv.req, !.prechecked = TRUE]
  /\ calls' = <<>>
  /\ txs' = <<>>
  /\ UNCHANGED chain

\* the caller has the result; nothing of the invocation is kept
Finish ==
  /\ inv.status \in {"returned", "thrown"}
  /\ inv' = IdleInvocation
  /\ calls' = <<>>
  /\ txs' = <<>>
  /\ UNCHANGED chain

\* a transaction of some other party changes the chain between invocations
ExternalTransaction ==
  /\ inv.status = "idle"
  /\ chain' \in ChainStates \ {chain}
  /\ \E f \in DOMAIN chain : \A g \in DOMAIN chain \ {f} : chain'[g] = chain[g]
  /\ UNCHANGED <<inv, calls, txs>>

\* the token owner lowers the allowance while a transfer is in flight,
\* after the transfer has read it
ExternalApprove ==
  /\ inv.op = "transfer" /\ inv.status = "running"
  /\ \E k \in DOMAIN calls : calls[k].fn = "allowance"
  /\ \E allowance \in 0..MaxAllowance :
       /\ allowance < chain.allowance
       /\ chain' = [chain EXCEPT !.allowance = allowance]
  /\ UNCHANGED <<inv, calls, txs>>

Next ==
  \/ precheckTransferToken
  \/ precheckTransferTokenHelpers
  \/ precheckTransferTokenRefactored
  \/ ReadRouters
  \/ ReadBalanceOf
  \/ ReadDecimals
  \/ ReadQuoteGasPayment
  \/ ReadNativeBalance
  \/ transferToken
  \/ ReadAllowance
  \/ ReadAllowanceDecimals
  \/ ReadApproveDecimals
  \/ SubmitApprove
  \/ SubmitTransferRemote
  \/ FinishPrecheck
  \/ Finish
  \/ ExternalTransaction
  \/ ExternalApprove

Spec == Init /\ [][Next]_vars

(***************************************************************************)
(* The approval decision of transferToken on allowances and amounts of     *)
(* the size of real token amounts (10^18 base units and more), which the   *)
(* machine integers of the chain state above cannot hold: the invocation   *)
(* stands at the comparison, with the allowance ERC20Service.getAllowance  *)
(* returned for Unit.WEI, a decimal numeral, and the amount of the request.*)
(***************************************************************************)
TokenUnit == "1000000000000000000"

AllowanceNumerals ==
  {"0", "1", "999999999999999999", TokenUnit, "1000000000000000001",
   "1000000000000000064", "1000000000000000065", "1000000000000000128",
   "2000000000000000000", "9007199254740992", "9007199254740993"}

AmountNumerals == AllowanceNumerals \ {"0"}

AtComparison(currentAllowance, amount) ==
  LET req == [KeyRequest EXCEPT !.amountUnit = WEI, !.amount = amount]
  IN [IdleInvocation EXCEPT
        !.op = "transfer", !.impl = TRANSFER, !.req = req, !.status = "running",
        !.pc = Len(TransferPipeline(req, FALSE)) - 3,
        !.senderAddress = Wallet(ValidPrivateKey).val,
        !.routerAddress = getRouterAddress(req.tokenSymbol, req.originChain).val,
        !.currentAllowance = currentAllowance]

ApprovalInit ==
  /\ chain \in {c \in ChainStates : c.remoteRouter = EnrolledRouter /\ c.allowance = 0}
  /\ \E currentAllowance \in AllowanceNumerals, amount \in AmountNumerals :
       inv = AtComparison(currentAllowance, amount)
  /\ calls = <<>>
  /\ txs = <<>>

\* if (currentAllowanceNum >= transferAmountNum) ... else ...
DecideApproval ==
  /\ AtRead("compareAllowance")
  /\ inv' = Compute("compareAllowance", inv)
  /\ UNCHANGED <<chain, calls, txs>>

ApprovalNext == DecideApproval

ApprovalSpec == ApprovalInit /\ [][ApprovalNext]_vars

(***************************************************************************)
(* Properties of precheckTransferToken.                                    *)
(***************************************************************************)
Prechecking == inv.op = "precheck"
PrecheckPrefix == "Transfer precheck failed: "
ThrownWith(cause) == inv.status = "thrown" /\ inv.message = PrecheckPrefix \o cause

\* the input steps in the order the specification fixes
StepsInSpecifiedOrder(req) ==
  <<validateRequiredParameters(RequiredParameters(req)),
    validatePositiveAmount(req.amount),
    validateChainDifference(req.originChain, req.destinationChain),
    validateReceiverAddress(req.receiverAddress),
    validateAndResolveSenderAddress(req.senderAddressOrPrivateKey)>>

\* the step of the specified order a read belongs to
StepOfRead(fn) ==
  CASE fn = "routers" -> 6
    [] fn \in {"balanceOf", "decimals"} -> 7
    [] fn \in {"quoteGasPayment", "getBalance"} -> 8

\* position of a step in the pipeline of the running revision
PipelineIndex(op) == CHOOSE k \in DOMAIN Pipeline(inv) : Pipeline(inv)[k] = op
FailedAt(op) == inv.status = "thrown" /\ inv.pc = PipelineIndex(op)
Passed(op) == inv.pc > PipelineIndex(op)

(* C1: the steps run in the order required fields, amount sanity, chain   *)
(* distinctness, receiver format, sender resolution, destination router,  *)
(* token balance, native balance: when an input step fails the error is   *)
(* the one of the earliest failing step and no read is issued; reads are   *)
(* issued in step order, and a read of a later step is never issued once   *)
(* an earlier step has failed.                                             *)
C1_StepOrder ==
  Prechecking =>
    /\ ~FirstFailure(StepsInSpecifiedOrder(inv.req)).ok =>
         /\ ThrownWith(FirstFailure(StepsInSpecifiedOrder(inv.req)).err)
         /\ calls = <<>>
    /\ \A k \in 1..(Len(calls) - 1) : StepOfRead(calls[k].fn) <= StepOfRead(calls[k + 1].fn)
    /\ FailedAt("checkRouter") => \A k \in DOMAIN calls : StepOfRead(calls[k].fn) = 6
    /\ FailedAt("checkTokenBalance") => \A k \in DOMAIN calls : StepOfRead(calls[k].fn) <= 7

\* the same statement for the inline and the helper-based revisions only
C1_StepOrderInlineAndHelpers == inv.impl # REFACTORED => C1_StepOrder

\* several steps fail and the earliest one is reported
C1_SeveralStepsFail ==
  /\ Prechecking /\ inv.impl = INLINE
  /\ Cardinality({k \in 1..5 : ~StepsInSpecifiedOrder(inv.req)[k].ok}) >= 3
  /\ ThrownWith("Origin and destination chains must be different")

(* C2: precheckTransferToken is read-only: every step of a precheck, from  *)
(* its entry to its outcome, leaves the chain state (allowance, token      *)
(* balance, native balance) unchanged, submits no transaction, and the     *)
(* only calls it issues are the five view calls.                           *)
ViewCalls == {"routers", "balanceOf", "decimals", "quoteGasPayment", "getBalance"}

PrecheckStep ==
  \/ inv.status = "idle" /\ inv'.op = "precheck"
  \/ Prechecking /\ inv.status = "running"

C2_ReadOnly ==
  [][PrecheckStep =>
       /\ chain' = chain
       /\ txs' = txs
       /\ \A k \in DOMAIN calls' : calls'[k].fn \in ViewCalls]_vars

\* a precheck that issued all its reads and returned true
C2_AllReadsDone ==
  /\ Prechecking /\ inv.status = "returned" /\ inv.value = TRUE
  /\ {calls[k].fn : k \in DOMAIN calls} = ViewCalls

(* C3: precheckTransferToken never returns false: it returns true, or      *)
(* throws one error whose message is exactly "Transfer precheck failed: "  *)
(* followed by the message of the cause: a failed validation, a failed     *)
(* configuration lookup, a failed read, a failed conversion or one of the  *)
(* three explicit failures.                                                *)
ErrorsOf(results) == {results[k].err : k \in {j \in DOMAIN results : ~results[j].ok}}

ValidationCauses(req) ==
  ErrorsOf(StepsInSpecifiedOrder(req))

ConfigCauses(req) ==
  ErrorsOf(<<getDomainId(req.destinationChain), getRpcUrl(req.originChain),
             getCollateralAddress(req.tokenSymbol, req.originChain)>>)
    \cup {pre \o e : pre \in {"Failed to get router address: ", "Failed to get balance: ",
                              "Failed to quote gas payment: "},
                     e \in ErrorsOf(<<getRpcUrl(req.originChain),
                                      getRouterAddress(req.tokenSymbol, req.originChain),
                                      getDomainId(req.destinationChain)>>)}

ReadCauses ==
  {pre \o pre \o RpcError : pre \in {"Failed to get router address: ", "Failed to get balance: ",
                                     "Failed to quote gas payment: ",
                                     "Failed to get token decimals: "}}
    \cup {RpcError}

ConversionCauses == {"invalid FixedNumber string value", "too many decimals for format"}

ExplicitCauses ==
  {NoRouterMessage(inv), InsufficientBalanceMessage(inv), InsufficientNativeMessage(inv)}

C3_TrueOrWrappedError ==
  [](Prechecking =>
       /\ inv.status = "returned" => inv.value = TRUE
       /\ inv.status = "thrown" =>
            /\ startsWith(inv.message, PrecheckPrefix)
            /\ Drop(inv.message, Len(PrecheckPrefix)) \in
                 ValidationCauses(inv.req) \cup ConfigCauses(inv.req) \cup ReadCauses
                   \cup ConversionCauses \cup ExplicitCauses)

\* a failed read, wrapped by its gateway and then by the precheck
C3_FailedReadWrapped ==
  /\ Prechecking
  /\ inv.status = "thrown"
  /\ inv.message = "Transfer precheck failed: Failed to get balance: Failed to get balance: Network error"

(* C4: a request in which one of tokenSymbol, originChain,                 *)
(* destinationChain, receiverAddress, senderAddressOrPrivateKey or amount  *)
(* is null, undefined or the empty string fails, before any read, with     *)
(* "<field> is required and cannot be empty" naming a missing field: the   *)
(* missing field when there is one, the first of them when several are.    *)
RequiredFields ==
  {"tokenSymbol", "originChain", "destinationChain", "receiverAddress",
   "senderAddressOrPrivateKey", "amount"}

MissingFields(req) == {f \in RequiredFields : req[f] \in {Null, Undefined, ""}}

C4_MissingFieldNamed ==
  Prechecking /\ MissingFields(inv.req) # {} =>
    /\ \E f \in MissingFields(inv.req) :
         ThrownWith(f \o " is required and cannot be empty")
    /\ calls = <<>>

\* the last field checked is the one missing
C4_AmountMissing ==
  /\ Prechecking
  /\ inv.req.amount = ""
  /\ ThrownWith("amount is required and cannot be empty")

(* C5: the amount sanity step rejects, with "Amount must be a positive    *)
(* number", every amount that does not parse to a finite number greater    *)
(* than zero (zero, negative, non-numeric, non-finite), and only those.    *)
FinitePositive(amount) ==
  LET n == parseFloat(amount) IN n.kind = "num" /\ ~n.neg /\ n.mant > 0

C5_AmountSanity ==
  Prechecking /\ MissingFields(inv.req) = {} =>
    (ThrownWith("Amount must be a positive number") <=> ~FinitePositive(inv.req.amount))

(* C6 as stated: equal chain names always give the chain error, whatever   *)
(* the other parameters are.                                               *)
SameChainError == "Origin and destination chains must be different"

EarlierStepsPass(i) ==
  /\ validateRequiredParameters(RequiredParameters(i.req)).ok
  /\ validatePositiveAmount(i.req.amount).ok
  /\ i.impl = REFACTORED =>
       /\ validateAndResolveSenderAddress(i.req.senderAddressOrPrivateKey).ok
       /\ validateReceiverAddress(i.req.receiverAddress).ok

EmptyOrAllZero(v) == v = "" \/ (startsWith(v, "0x") /\ AllIn(Drop(v, 2), {"0"}))

RouterQueried ==
  \E k \in DOMAIN calls :
    calls[k] = [fn |-> "routers",
                rpcUrl |-> getRpcUrl(inv.req.originChain).val,
                contract |-> getRouterAddress(inv.req.tokenSymbol, inv.req.originChain).val,
                arg |-> ToString(getDomainId(inv.req.destinationChain).val)]

RouterStepFailed ==
  /\ FailedAt("checkRouter")
  /\ ThrownWith("No router available for " \o inv.req.tokenSymbol \o " on destination chain "
                  \o inv.req.destinationChain \o " (domain "
                  \o ToString(getDomainId(inv.req.destinationChain).val) \o ")")

C7_RouterPresence ==
  Prechecking /\ inv.pc >= PipelineIndex("checkRouter") =>
    /\ RouterQueried
    /\ RouterStepFailed <=> EmptyOrAllZero(chain.remoteRouter)
    /\ Passed("checkRouter") <=> ~EmptyOrAllZero(chain.remoteRouter)

\* the same statement for the values that are empty or have the width of an address
C7_RouterPresenceAddressWidth == chain.remoteRouter # ZeroBytes32 => C7_RouterPresence

(* C8 as stated: a token that is not configured on the origin chain does   *)
(* not make the precheck fail.                                             *)
OriginRouterUnresolved(i) ==
  /\ FirstFailure(StepsInSpecifiedOrder(i.req)).ok
  /\ getDomainId(i.req.destinationChain).ok
  /\ getRpcUrl(i.req.originChain).ok
  /\ i.req.tokenSymbol \notin DOMAIN assetsConfig

WholePart(amount) == LeadingDigits(amount)
FractionPart(amount) ==
  IF Len(WholePart(amount)) < Len(amount) THEN Drop(amount, Len(WholePart(amount)) + 1) ELSE ""

\* the amount in base units: scaled by the token's decimals when human-readable
BaseUnits(amount, unit, decimals) ==
  IF unit = WEI THEN ParseNat(WholePart(amount))
  ELSE ParseNat(WholePart(amount)) * Pow10(decimals)
         + ParseNat(FractionPart(amount)) * Pow10(decimals - Len(FractionPart(amount)))

ResolvedSender == validateAndResolveSenderAddress(inv.req.senderAddressOrPrivateKey).val

BalanceQueried ==
  \E k \in DOMAIN calls :
    calls[k] = [fn |-> "balanceOf",
                rpcUrl |-> getRpcUrl(inv.req.originChain).val,
                contract |-> getRouterAddress(inv.req.tokenSymbol, inv.req.originChain).val,
                arg |-> ResolvedSender]

TokenStepFailed(held, requested) ==
  /\ FailedAt("checkTokenBalance")
  /\ ThrownWith("Insufficient balance for " \o inv.req.tokenSymbol \o ": sender has "
                  \o ToString(held) \o " wei but trying to transfer "
                  \o ToString(requested) \o " wei")

C9_TokenBalance ==
  Prechecking /\ inv.pc >= PipelineIndex("checkTokenBalance") =>
    LET requested == BaseUnits(inv.req.amount, inv.req.amountUnit, chain.decimals)
    IN /\ BalanceQueried
       /\ TokenStepFailed(chain.balance, requested) <=> chain.balance < requested
       /\ Passed("checkTokenBalance") <=> chain.balance >= requested

\* a balance equal to the requested amount passes the step
C9_EqualBalancePasses ==
  /\ Prechecking /\ Passed("checkTokenBalance")
  /\ chain.balance = BaseUnits(inv.req.amount, inv.req.amountUnit, chain.decimals)

(* C10: once the earlier steps pass, the precheck fails with "Insufficient *)
(* native balance for gas payment", stating both values, if and only if    *)
(* the sender's native balance on the origin chain is strictly less than   *)
(* the fee the router quotes for the destination domain; with an equal     *)
(* balance the step passes and the precheck returns true.                  *)
FeeQuoted ==
  \E k \in DOMAIN calls :
    calls[k] = [fn |-> "quoteGasPayment",
                rpcUrl |-> getRpcUrl(inv.req.originChain).val,
                contract |-> getRouterAddress(inv.req.tokenSymbol, inv.req.originChain).val,
                arg |-> ToString(getDomainId(inv.req.destinationChain).val)]

NativeBalanceQueried ==
  \E k \in DOMAIN calls :
    calls[k] = [fn |-> "getBalance",
                rpcUrl |-> getRpcUrl(inv.req.originChain).val,
                contract |-> "",
                arg |-> ResolvedSender]

NativeStepFailed(held, fee) ==
  /\ FailedAt("checkNativeBalance")
  /\ ThrownWith("Insufficient native balance for gas payment: sender has "
                  \o formatEther(held) \o " ETH but needs " \o formatEther(fee) \o " ETH")

C10_NativeBalance ==
  Prechecking /\ inv.pc >= PipelineIndex("checkNativeBalance") =>
    /\ FeeQuoted /\ NativeBalanceQueried
    /\ NativeStepFailed(chain.native, chain.gasPayment) <=> chain.native < chain.gasPayment
    /\ (inv.status = "returned" /\ inv.value = TRUE) <=> chain.native >= chain.gasPayment

\* a native balance equal to a non-zero fee: the precheck returns true
C10_EqualNativeReturnsTrue ==
  /\ Prechecking /\ inv.status = "returned" /\ inv.value = TRUE
  /\ chain.gasPayment > 0
  /\ chain.native = chain.gasPayment

(***************************************************************************)
(* Properties of transferToken and of the conversions.                     *)
(***************************************************************************)
Transferring == inv.op = "transfer"

CallsOf(fn) == {k \in DOMAIN calls : calls[k].fn = fn}

TxsOf(fn) == {k \in DOMAIN txs : txs[k].fn = fn}

\* C11: when the amount unit is base units (Unit.WEI) neither
\* precheckTransferToken nor transferToken issues a token-decimals lookup;
\* the decimals read is issued only for a human-readable amount (Unit.ETH)
C11_NoDecimalsLookupForBaseUnits ==
  inv.req.amountUnit = WEI => CallsOf("decimals") = {}

\* the helper-based precheck and transferToken do skip the lookup
C11_HelpersSkipLookup ==
  inv.impl \in {HELPERS, TRANSFER} => C11_NoDecimalsLookupForBaseUnits

\* the amount of the request in base units, by the decimals of the token
Requested == BaseUnits(inv.req.amount, inv.req.amountUnit, chain.decimals)

\* the allowance was read and compared: the approval decision is taken
ApprovalDecided == Transferring /\ Passed("compareAllowance")

\* the approval step is behind the invocation
ApprovalDone == ApprovalDecided /\ inv.approving /\ Passed("approve")

\* C12: transferToken submits an approve transaction if and only if the
\* allowance of the sender to the origin-chain router, read once in the same
\* invocation, is less than the requested amount: none when the allowance
\* is greater or equal, exactly one when it is smaller
C12_ApproveIffAllowanceShort ==
  Transferring =>
    /\ Cardinality(TxsOf("approve")) <= 1
    /\ TxsOf("approve") # {} => ApprovalDecided /\ inv.allowance < Requested
    /\ ApprovalDecided =>
         /\ Cardinality(CallsOf("allowance")) = 1
         /\ inv.approving <=> inv.allowance < Requested
         /\ inv.allowance >= Requested => TxsOf("approve") = {}
    /\ ApprovalDone => Cardinality(TxsOf("approve")) = 1

\* a transfer that found the allowance short, approved once and went through
C12_ApprovedOnceThenTransferred ==
  /\ Transferring /\ inv.status = "returned"
  /\ inv.allowance < Requested
  /\ Cardinality(TxsOf("approve")) = 1
  /\ txs[Len(txs)].fn = "transferRemote"

\* a transfer that found the allowance equal to the amount and did not approve
C12_EqualAllowanceNoApprove ==
  /\ Transferring /\ inv.status = "returned"
  /\ inv.allowance = Requested
  /\ TxsOf("approve") = {}

\* the exact order of two base-unit numerals
NumeralLess(a, b) == ~DigitsLessOrEqual(StripLeadingZeros(b), StripLeadingZeros(a))

\* C12 on base-unit numerals of any size: transferToken decides to approve
\* if and only if the allowance it read is less than the requested amount
C12_ApprovalDecisionExact ==
  (ApprovalDecided /\ inv.req.amountUnit = WEI) =>
    (inv.approving <=> NumeralLess(inv.currentAllowance, inv.req.amount))

\* the comparison went through doubles for an allowance one base unit short
C12_AllowanceOneUnitShort ==
  /\ ApprovalDecided
  /\ inv.currentAllowance = "999999999999999999" /\ inv.req.amount = TokenUnit
  /\ ~inv.approving

OriginRouter == getRouterAddress(inv.req.tokenSymbol, inv.req.originChain).val

ApproveFailure == "Failed to approve token: "

\* C13: when transferToken needs an approval, the approve transaction is for
\* exactly the requested amount, to the origin router, and is confirmed
\* before the fee is quoted and before transferRemote is submitted; when its
\* submission or its confirmation fails, transferToken fails and submits no
\* transferRemote
C13_ExactApproveBeforeTransfer ==
  Transferring =>
    /\ \A k \in TxsOf("approve") :
         /\ txs[k].args = <<OriginRouter, Requested>>
         /\ txs[k].outcome # "confirmed" =>
              /\ inv.status = "thrown"
              /\ startsWith(inv.message, ApproveFailure)
              /\ TxsOf("transferRemote") = {}
              /\ CallsOf("quoteGasPayment") = {}
    /\ (ApprovalDecided /\ inv.approving
          /\ (CallsOf("quoteGasPayment") # {} \/ TxsOf("transferRemote") # {})) =>
         \E k \in TxsOf("approve") :
           /\ txs[k].outcome = "confirmed"
           /\ \A j \in TxsOf("transferRemote") : k < j

\* an approval of the requested amount was confirmed, then the transfer submitted
C13_ApprovedThenTransferred ==
  /\ Transferring /\ inv.approving
  /\ \E k \in TxsOf("approve"), j \in TxsOf("transferRemote") :
       /\ k < j
       /\ txs[k].outcome = "confirmed" /\ txs[k].args[2] = Requested
       /\ txs[j].outcome = "confirmed"

\* an approval reverted: the transfer failed without a transferRemote
C13_ApproveRevertedNoTransfer ==
  /\ Transferring /\ inv.status = "thrown"
  /\ \E k \in TxsOf("approve") : txs[k].outcome = "reverted"
  /\ TxsOf("transferRemote") = {}

\* the transferRemote transaction of the invocation was mined
TransferConfirmed ==
  Transferring /\ \E k \in TxsOf("transferRemote") : txs[k].outcome = "confirmed"

ConfirmedTransfer == CHOOSE k \in TxsOf("transferRemote") : txs[k].outcome = "confirmed"

MailboxConfigured(chainName) ==
  /\ chainName \in DOMAIN chainConfig
  /\ "core_addresses" \in DOMAIN chainConfig[chainName]
  /\ chainConfig[chainName].core_addresses.mailbox \notin {Null, Undefined, ""}

\* log entries of the messaging hub that carry exactly two topics
MatchingLogs(receipt, mailboxAddress) ==
  IF "logs" \notin DOMAIN receipt THEN {}
  ELSE {k \in DOMAIN receipt.logs :
          /\ receipt.logs[k].address \notin {Null, Undefined, ""}
          /\ toLowerCase(receipt.logs[k].address) = toLowerCase(mailboxAddress)
          /\ Len(receipt.logs[k].topics) = 2}

\* C14: message-id extraction never fails a transfer: whenever the
\* transferRemote transaction is confirmed, transferToken returns with a
\* populated transactionHash, and the messageId is the empty string when
\* the mailbox of the origin chain is not configured or no log entry matches
C14_ExtractionNeverFailsTransfer ==
  TransferConfirmed =>
    /\ inv.status = "returned"
    /\ inv.transactionHash # "" /\ inv.transactionHash = TxHash(ConfirmedTransfer)
    /\ ~MailboxConfigured(inv.req.originChain) => inv.messageId = ""
    /\ (MailboxConfigured(inv.req.originChain)
          /\ MatchingLogs(txs[ConfirmedTransfer].receipt,
                          chainConfig[inv.req.originChain].core_addresses.mailbox) = {}) =>
         inv.messageId = ""

\* a confirmed transfer from a chain without mailbox returned an empty message id
C14_NoMailboxEmptyMessageId ==
  /\ TransferConfirmed /\ inv.status = "returned"
  /\ ~MailboxConfigured(inv.req.originChain)
  /\ "logs" \in DOMAIN txs[ConfirmedTransfer].receipt
  /\ Len(txs[ConfirmedTransfer].receipt.logs) > 0
  /\ inv.messageId = "" /\ inv.transactionHash # ""

\* a confirmed transfer whose receipt has no log of the mailbox
C14_NoMatchingLogEmptyMessageId ==
  /\ TransferConfirmed /\ inv.status = "returned"
  /\ MailboxConfigured(inv.req.originChain)
  /\ "logs" \in DOMAIN txs[ConfirmedTransfer].receipt
  /\ Len(txs[ConfirmedTransfer].receipt.logs) > 0
  /\ inv.messageId = ""

FirstOf(set) == CHOOSE k \in set : \A j \in set : k <= j

\* C15: getMessageId returns the second topic of the first log entry of the
\* receipt that the configured mailbox emitted (the same address, whatever
\* the case of its hex digits) with exactly two topics; entries of other
\* addresses or with another topic count are never selected, and when no
\* entry matches the extraction fails
C15_FirstMailboxLogSecondTopic ==
  \A k \in TxsOf("transferRemote") :
    txs[k].outcome = "confirmed" =>
      LET receipt == txs[k].receipt
          matching == MatchingLogs(receipt, Mailbox)
          messageId == getMessageId(receipt, Mailbox)
      IN /\ matching = {} => ~messageId.ok
         /\ matching # {} =>
              /\ messageId.ok
              /\ messageId.val = receipt.logs[FirstOf(matching)].topics[2]
              /\ MailboxConfigured(inv.req.originChain) => inv.messageId = messageId.val

\* a receipt with entries of another address, of the mailbox with one topic
\* and two matching entries: the first matching one gave the message id
C15_FirstOfTwoMatchingLogs ==
  /\ TransferConfirmed /\ MailboxConfigured(inv.req.originChain)
  /\ Cardinality(MatchingLogs(txs[ConfirmedTransfer].receipt, Mailbox)) = 2
  /\ FirstOf(MatchingLogs(txs[ConfirmedTransfer].receipt, Mailbox)) > 1
  /\ inv.messageId = MessageIds[1]

PrecheckReads == {"routers", "balanceOf", "decimals", "quoteGasPayment", "getBalance"}

\* C16: no operation is retried: a precheck issues each of its reads at
\* most once; a transfer submits at most one approve and at most one
\* transferRemote and quotes the fee at most once, exactly once when it
\* succeeds; a failed write ends the invocation with an error
C16_NoRetry ==
  /\ Prechecking => \A fn \in PrecheckReads : Cardinality(CallsOf(fn)) <= 1
  /\ Transferring =>
       /\ Cardinality(TxsOf("approve")) <= 1
       /\ Cardinality(TxsOf("transferRemote")) <= 1
       /\ Cardinality(CallsOf("quoteGasPayment")) <= 1
       /\ Cardinality(CallsOf("allowance")) <= 1
       /\ inv.status = "returned" =>
            /\ Cardinality(CallsOf("quoteGasPayment")) = 1
            /\ Cardinality(TxsOf("transferRemote")) = 1
       /\ \A k \in DOMAIN txs : txs[k].outcome # "confirmed" =>
            inv.status = "thrown" /\ k = Len(txs)

\* a precheck whose fee quote failed: one quote was issued, the precheck is over
C16_FailedQuoteNotReissued ==
  /\ Prechecking /\ inv.status = "thrown"
  /\ inv.message = PrecheckPrefix \o "Failed to quote gas payment: "
                     \o "Failed to quote gas payment: " \o RpcError
  /\ Cardinality(CallsOf("quoteGasPayment")) = 1

\* a transfer that approved once, quoted once and transferred once
C16_EachStepOnce ==
  /\ Transferring /\ inv.status = "returned"
  /\ Cardinality(TxsOf("approve")) = 1
  /\ Cardinality(CallsOf("quoteGasPayment")) = 1
  /\ Cardinality(TxsOf("transferRemote")) = 1

\* the invocation stands before its transferRemote with a usable signer
AtTransferRemote ==
  /\ AtRead("transferRemote")
  /\ Wallet(inv.req.senderAddressOrPrivateKey).ok

SubmitsTransferRemote ==
  /\ Len(txs') = Len(txs) + 1
  /\ txs'[Len(txs')].fn = "transferRemote"
  /\ txs'[Len(txs')].args[3] = inv.amountInWei
  /\ calls' = calls

\* C17: transferToken reads the allowance once and never again: when the
\* allowance on chain has fallen below the amount after that read, the
\* next step of the invocation still submits transferRemote, without any
\* approve
C17_AllowanceNotReread ==
  [][/\ (Transferring /\ inv'.op = "transfer") =>
          Cardinality({k \in DOMAIN calls' : calls'[k].fn = "allowance"}) <= 1
     /\ (AtTransferRemote /\ ~inv.approving /\ chain.allowance < inv.amountInWei
           /\ inv' # inv) =>
          SubmitsTransferRemote /\ TxsOf("approve") = {}]_vars

\* the allowance covered the amount when read, was lowered, and the
\* transferRemote was submitted without approve against the lower allowance
C17_TransferAfterAllowanceLowered ==
  /\ Transferring /\ ~inv.approving
  /\ inv.allowance >= inv.amountInWei
  /\ chain.allowance < inv.amountInWei
  /\ TxsOf("approve") = {}
  /\ TxsOf("transferRemote") # {}
  /\ txs[Len(txs)].outcome = "reverted"

BalanceReads == {"balanceOf", "getBalance"}

C18_TransferAfterNativeSpent ==
  /\ Transferring /\ inv.prechecked
  /\ chain.balance >= inv.amountInWei
  /\ chain.native < BigInt(inv.gasQuote)
  /\ TxsOf("transferRemote") # {}
  /\ txs[Len(txs)].outcome = "reverted"

\* the chain has a usable first endpoint
FirstEndpointUsable(chainName) ==
  /\ chainName \in DOMAIN chainConfig
  /\ "rpc_urls" \in DOMAIN chainConfig[chainName]
  /\ chainConfig[chainName].rpc_urls # <<>>
  /\ chainConfig[chainName].rpc_urls[1] \notin {Null, Undefined, ""}

RpcUrlErrors(chainName) ==
  {"Chain '" \o chainName \o "' not found in configuration",
   "No RPC URLs found for chain '" \o chainName \o "'",
   "Invalid RPC URL for chain '" \o chainName \o "'"}

\* the requests whose origin chain is a string: the lookup is applied to it
OriginLookedUp ==
  /\ inv.op \in {"precheck", "transfer"}
  /\ inv.req.originChain \notin {Null, Undefined}

\* C19: getRpcUrl fails when the chain is absent from the table, when its
\* endpoint list is missing or empty, or when the first entry is null or
\* empty; otherwise it returns the first endpoint, which every read and
\* every transaction of the invocation then uses, never a later one
C19_FirstEndpointOrError ==
  OriginLookedUp =>
    LET chainName == inv.req.originChain
        rpcUrl == getRpcUrl(chainName)
    IN IF FirstEndpointUsable(chainName)
       THEN /\ rpcUrl.ok /\ rpcUrl.val = chainConfig[chainName].rpc_urls[1]
            /\ \A k \in DOMAIN calls : calls[k].rpcUrl = chainConfig[chainName].rpc_urls[1]
            /\ \A k \in DOMAIN txs : txs[k].rpcUrl = chainConfig[chainName].rpc_urls[1]
       ELSE /\ ~rpcUrl.ok /\ rpcUrl.err \in RpcUrlErrors(chainName)
            /\ calls = <<>> /\ txs = <<>>
            /\ inv.status # "returned"

\* a transfer from the chain with two endpoints used the first for every call
C19_FirstOfTwoEndpoints ==
  /\ Transferring /\ inv.status = "returned"
  /\ Len(chainConfig[inv.req.originChain].rpc_urls) = 2
  /\ calls # <<>>
  /\ \A k \in DOMAIN calls : calls[k].rpcUrl = "https://polygon-rpc.com"
  /\ txs[Len(txs)].rpcUrl = "https://polygon-rpc.com"

\* a chain without endpoint list: the transfer failed before any call
C19_MissingEndpointList ==
  /\ Transferring /\ inv.status = "thrown"
  /\ "rpc_urls" \notin DOMAIN chainConfig[inv.req.originChain]
  /\ inv.message = "No RPC URLs found for chain 'noRpc'"
  /\ calls = <<>>

Credential == inv.req.senderAddressOrPrivateKey

InvalidSender == "Invalid sender address or private key"

\* every input step other than the sender resolution passes
OtherInputStepsPass ==
  /\ validateRequiredParameters(RequiredParameters(inv.req)).ok
  /\ validatePositiveAmount(inv.req.amount).ok
  /\ validateChainDifference(inv.req.originChain, inv.req.destinationChain).ok
  /\ validateReceiverAddress(inv.req.receiverAddress).ok

\* the account of the two balance reads
BalanceReadAccounts == {calls[k].arg : k \in CallsOf("balanceOf") \cup CallsOf("getBalance")}

\* C20: when the credential is itself a valid address the precheck uses it
\* unchanged as the sender of its balance reads; otherwise it derives the
\* address from the credential as a private key, and a failure of the
\* derivation is reported as "Invalid sender address or private key"
C20_SenderResolution ==
  []((Prechecking /\ OtherInputStepsPass) =>
       /\ isAddress(Credential) =>
            /\ inv.senderAddress = Credential
            /\ BalanceReadAccounts \subseteq {Credential}
            /\ ~ThrownWith(InvalidSender)
       /\ (~isAddress(Credential) /\ Wallet(Credential).ok) =>
            /\ inv.senderAddress = Wallet(Credential).val
            /\ BalanceReadAccounts \subseteq {Wallet(Credential).val}
            /\ ~ThrownWith(InvalidSender)
       /\ (~isAddress(Credential) /\ ~Wallet(Credential).ok) =>
            /\ ThrownWith(InvalidSender)
            /\ calls = <<>>)

\* the balance of an address given as credential was read
C20_AddressUsedUnchanged ==
  /\ Prechecking /\ isAddress(Credential)
  /\ CallsOf("balanceOf") # {} /\ CallsOf("getBalance") # {}
  /\ BalanceReadAccounts = {Credential}

\* the balance of the address derived from a private key was read
C20_AddressDerivedFromKey ==
  /\ Prechecking /\ ~isAddress(Credential)
  /\ CallsOf("balanceOf") # {}
  /\ BalanceReadAccounts = {Wallet(Credential).val}

\* a credential that is neither an address nor a key
C20_InvalidCredentialReported ==
  /\ Prechecking /\ Credential = "invalid_private_key"
  /\ ThrownWith(InvalidSender)

(***************************************************************************)
(* Properties of the input steps, of the order of the reads and of the     *)
(* transactions of transferToken.                                          *)
(***************************************************************************)
Invoked == inv.op \in {"precheck", "transfer"}

\* the message the caller sees for a cause: precheckTransferToken wraps it
Reported(cause) ==
  inv.status = "thrown"
    /\ inv.message = (IF Prechecking THEN PrecheckPrefix ELSE "") \o cause

ReceiverError == "Receiver address must be a valid Ethereum address"

\* the steps the running revision performs before the receiver check pass
ReceiverStepReached(i) ==
  /\ validateInputParameters(i.req).ok
  /\ i.impl \in {INLINE, HELPERS} =>
       validateChainDifference(i.req.originChain, i.req.destinationChain).ok
  /\ i.impl = REFACTORED =>
       validateAndResolveSenderAddress(i.req.senderAddressOrPrivateKey).ok

\* C21: the receiver check rejects, with "Receiver address must be a valid
\* Ethereum address", every receiver that fails the address-validity
\* predicate or does not start with the literal prefix 0x, and passes only a
\* receiver that satisfies both: once the steps before it pass, the
\* invocation fails with that message exactly for those receivers, before
\* any read
C21_ReceiverCheck ==
  [](Invoked /\ ReceiverStepReached(inv) =>
       /\ Reported(ReceiverError) <=>
            (~isAddress(inv.req.receiverAddress) \/ ~startsWith(inv.req.receiverAddress, "0x"))
       /\ Reported(ReceiverError) => calls = <<>> /\ txs = <<>>)

\* 40 hex digits that satisfy the address-validity predicate, without the prefix
C21_PrefixlessReceiverRejected ==
  /\ Prechecking
  /\ isAddress(inv.req.receiverAddress)
  /\ ~startsWith(inv.req.receiverAddress, "0x")
  /\ Reported(ReceiverError)

\* a receiver shorter than an address
C21_ShortReceiverRejected ==
  /\ Transferring
  /\ inv.req.receiverAddress = "0x123"
  /\ Reported(ReceiverError)

InputStepFails(req) == ~FirstFailure(StepsInSpecifiedOrder(req)).ok

\* C22: fail fast: when precheckTransferToken fails at a caller-input step
\* (required field, amount sanity, chain distinctness, receiver format or
\* sender resolution) the invocation has issued no network read at all: a
\* request that fails an input step is thrown with the error of an input
\* step and with no router query, decimals read, balance read or fee quote
C22_InputErrorsBeforeAnyRead ==
  [](Prechecking /\ InputStepFails(inv.req) =>
       /\ inv.status = "thrown"
       /\ \E cause \in ValidationCauses(inv.req) : ThrownWith(cause)
       /\ calls = <<>>)

\* the last input step fails, on a chain where every read would succeed
C22_InvalidSenderNoRead ==
  /\ Prechecking
  /\ ~validateAndResolveSenderAddress(inv.req.senderAddressOrPrivateKey).ok
  /\ ThrownWith("Invalid sender address or private key")
  /\ chain.remoteRouter = EnrolledRouter
  /\ calls = <<>>

\* the invocation was thrown at the given step of its pipeline
ThrownAtStep(op) ==
  /\ inv.status = "thrown"
  /\ calls # <<>>
  /\ inv.pc \in DOMAIN Pipeline(inv)
  /\ Pipeline(inv)[inv.pc] = op

\* C23: in the token balance step of precheckTransferToken the amount is
\* converted to base units (the decimals read included) before the router
\* balance of the sender is read: a balanceOf read has been issued only
\* after the conversion, and a precheck that fails at the decimals read or
\* at the conversion has issued no balanceOf read
C23_ConvertedBeforeBalanceRead ==
  Prechecking =>
    /\ CallsOf("balanceOf") # {} => Passed("parseUnits")
    /\ ThrownAtStep("getDecimals") \/ ThrownAtStep("parseUnits") => CallsOf("balanceOf") = {}

\* the same statement for the helper-based and the refactored revisions only
C23_HelpersConvertFirst == inv.impl # INLINE => C23_ConvertedBeforeBalanceRead

\* the inline revision reads the balance, then fails at the decimals read
C23_BalanceReadThenDecimalsFail ==
  /\ Prechecking /\ inv.impl = INLINE
  /\ inv.req = BaseRequest
  /\ chain.remoteRouter = EnrolledRouter
  /\ ThrownAtStep("getDecimals")
  /\ CallsOf("balanceOf") # {}

\* the receiver as a 32-byte word: twelve zero bytes, then its twenty bytes
PaddedReceiver(receiverAddress) ==
  "0x" \o Rep("0", Bytes32HexLength - AddressHexLength) \o toLowerCase(Drop(receiverAddress, 2))

ApproveConfirmed == \E k \in TxsOf("approve") : txs[k].outcome = "confirmed"

\* C24: transferToken submits transferRemote with the native value equal to
\* the fee the router quoted in the same invocation, for the domain id of
\* the destination chain, with the receiver left-padded to 32 bytes and the
\* amount in base units; the fee is quoted once, after the approval (when
\* one is made) is confirmed and before the transfer is submitted
C24_TransferRemoteArguments ==
  Transferring =>
    /\ CallsOf("quoteGasPayment") # {} =>
         /\ Cardinality(CallsOf("quoteGasPayment")) = 1
         /\ inv.approving => ApproveConfirmed
         /\ \A k \in CallsOf("quoteGasPayment") :
              /\ calls[k].arg = ToString(getDomainId(inv.req.destinationChain).val)
              /\ calls[k].contract = OriginRouter
    /\ \A k \in TxsOf("transferRemote") :
         /\ CallsOf("quoteGasPayment") # {}
         /\ txs[k].to = OriginRouter
         /\ txs[k].args =
              <<getDomainId(inv.req.destinationChain).val,
                PaddedReceiver(inv.req.receiverAddress),
                BaseUnits(inv.req.amount, inv.req.amountUnit, chain.decimals),
                chain.gasPayment>>

\* an approval, then a confirmed transfer that carries a non-zero quoted fee
C24_QuotedFeeAttached ==
  /\ Transferring /\ inv.status = "returned"
  /\ Len(txs) = 2
  /\ txs[1].fn = "approve" /\ txs[1].outcome = "confirmed"
  /\ txs[2].fn = "transferRemote" /\ txs[2].outcome = "confirmed"
  /\ txs[2].args[4] = chain.gasPayment
  /\ chain.gasPayment > 0

\* the four validations of transferToken, in its order
TransferInputSteps(req) ==
  <<validateRequiredParameters(RequiredParameters(req)),
    validatePositiveAmount(req.amount),
    validateReceiverAddress(req.receiverAddress),
    validateAndResolveSenderAddress(req.senderAddressOrPrivateKey)>>

\* the failures only precheckTransferToken reports
PrecheckOnlyFailure(message) ==
  \E p \in {SameChainError, "No router available", "Insufficient balance",
            "Insufficient native balance"} : startsWith(message, p)

C25_ShortBalanceTransferSubmitted ==
  /\ Transferring
  /\ ~inv.prechecked
  /\ \E k \in TxsOf("transferRemote") :
       /\ chain.balance < txs[k].args[3]
       /\ txs[k].outcome = "reverted"

AmountError == "Amount must be a positive number"

\* a numeral of an integer: digits, with at most a fraction of zeros
IntegerNumeral(amount) ==
  /\ WholePart(amount) # ""
  /\ Len(WholePart(amount)) < Len(amount) =>
       /\ Char(amount, Len(WholePart(amount)) + 1) = "."
       /\ AllIn(FractionPart(amount), {"0"})

\* a positive amount that is not the numeral of an integer
NonIntegerPositive(amount) == FinitePositive(amount) /\ ~IntegerNumeral(amount)

InputStepsPass(i) ==
  IF i.op = "transfer" THEN FirstFailure(TransferInputSteps(i.req)).ok
  ELSE FirstFailure(StepsInSpecifiedOrder(i.req)).ok

\* C26: with the amount in base units, an amount that is positive but not
\* an integer numeral (such as "1.5") passes the amount sanity step and is
\* rejected at the conversion step: the invocation never gets past the
\* conversion and never returns; a precheck that comes to the conversion
\* fails with the wrapped conversion error, and transferToken fails with the
\* conversion error before any read (its allowance read included) and
\* before any transaction
C26_NonIntegerBaseUnitsRejected ==
  [](Invoked /\ MissingFields(inv.req) = {} /\ inv.req.amountUnit = WEI
             /\ NonIntegerPositive(inv.req.amount) =>
       /\ ~Reported(AmountError)
       /\ inv.status # "returned"
       /\ inv.pc <= PipelineIndex("parseUnits")
       /\ inv.status = "thrown" /\ inv.pc = PipelineIndex("parseUnits") /\ InputStepsPass(inv) =>
            \E cause \in ConversionCauses : Reported(cause)
       /\ Transferring =>
            /\ calls = <<>> /\ txs = <<>>
            /\ InputStepsPass(inv) => inv.status = "thrown")

\* the precheck of "1.5" base units fails at the conversion, after the reads before it
C26_PrecheckConversionError ==
  /\ Prechecking
  /\ inv.req.amountUnit = WEI /\ inv.req.amount = "1.5"
  /\ calls # <<>>
  /\ ThrownWith("too many decimals for format")

\* the transfer of "1.5" base units fails at the conversion, before any read
C26_TransferConversionError ==
  /\ Transferring
  /\ inv.req.amountUnit = WEI /\ inv.req.amount = "1.5"
  /\ inv.status = "thrown" /\ inv.message = "too many decimals for format"
  /\ calls = <<>> /\ txs = <<>>

\* a hex value of some width, every digit of which is zero
AllZero(v) == startsWith(v, "0x") /\ Len(v) > 2 /\ AllIn(Drop(v, 2), {"0"})

\* C27: the destination-router check treats every all-zero value that
\* routers(domainId) returns as "no router configured", the all-zero value
\* of the 32-byte return type included: a precheck never gets past the
\* check, and never returns true, while the router registered for the
\* destination domain is all zeros
C27_AllZeroRouterRejected ==
  Prechecking /\ AllZero(chain.remoteRouter) =>
    /\ ~Passed("checkRouter")
    /\ ~(inv.status = "returned" /\ inv.value = TRUE)

\* the same statement for the all-zero value that has the width of an address
C27_ZeroAddressRejected == chain.remoteRouter = ZeroAddress => C27_AllZeroRouterRejected

\* the zero word of the 32-byte return type: the precheck returns true
C27_ZeroWordReturnsTrue ==
  /\ Prechecking
  /\ inv.req = BaseRequest
  /\ chain.remoteRouter = ZeroBytes32
  /\ inv.destinationRouterAddress = ZeroBytes32
  /\ inv.status = "returned" /\ inv.value = TRUE

\* the decimals read of the conversion and the one of the approval agree
SameDecimalsRead ==
  inv.req.amountUnit = ETH /\ TxsOf("approve") # {} => inv.tokenDecimals = inv.approveDecimals

\* C28: in every transferToken invocation that submits both an approve and
\* a transferRemote, the base-unit amount approved equals the base-unit
\* amount transferred (both come from the amount and the unit of the
\* request), provided the decimals reads of the invocation returned the
\* same value
C28_ApprovedEqualsTransferred ==
  Transferring /\ SameDecimalsRead =>
    \A a \in TxsOf("approve"), t \in TxsOf("transferRemote") :
      /\ txs[a].args[2] = txs[t].args[3]
      /\ txs[a].args[2] = BaseUnits(inv.req.amount, inv.req.amountUnit, chain.decimals)

\* a human-readable amount scaled by the decimals, approved and transferred
C28_ScaledAmountApprovedAndTransferred ==
  /\ Transferring
  /\ inv.req.amountUnit = ETH /\ chain.decimals > 0
  /\ Len(txs) = 2
  /\ txs[1].fn = "approve" /\ txs[2].fn = "transferRemote"
  /\ txs[1].args[2] = txs[2].args[3]
  /\ txs[2].args[3] > 1

\* "1.0" base units: the transfer converts it, the approval cannot
C28_ApprovalConversionFails ==
  /\ Transferring
  /\ inv.req.amountUnit = WEI /\ inv.req.amount = "1.0"
  /\ inv.amountInWei = 1
  /\ inv.status = "thrown"
  /\ inv.message = "Failed to approve token: Cannot convert 1.0 to a BigInt"
  /\ txs = <<>>

\* the step of its pipeline at which the invocation stands or was thrown
StepAt(i) == IF i.pc \in DOMAIN Pipeline(i) THEN Pipeline(i)[i.pc] ELSE ""

StepsFromApprove == {"approve", "quoteGasPayment", "zeroPadValue", "transferRemote"}

\* a step of transferToken that ends it with an error
TransferFails ==
  /\ Transferring /\ inv.status = "running"
  /\ inv'.status = "thrown"

\* C29: transferToken is not atomic and performs no rollback: an invocation
\* that fails before its approve step has submitted no state-changing call;
\* when a step fails after the approve was confirmed (the fee quote or
\* transferRemote), the invocation ends with an error, the failing step
\* leaves the chain state as it is and submits nothing that takes the
\* approval back, so the router keeps the allowance it was granted
C29_NoRollback ==
  /\ [](Transferring /\ inv.status = "thrown" /\ StepAt(inv) \notin StepsFromApprove
          => txs = <<>>)
  /\ [](Transferring => \A k \in DOMAIN txs : txs[k].fn \in WriteOps
                                                /\ (txs[k].fn = "approve" => k = 1))
  /\ [][TransferFails =>
          /\ chain' = chain
          /\ \A k \in DOMAIN txs' \ DOMAIN txs : txs'[k].outcome # "confirmed"]_vars

\* the approve was confirmed, the fee quote failed: the allowance stays granted
C29_ApprovedThenQuoteFailed ==
  /\ Transferring /\ inv.status = "thrown"
  /\ StepAt(inv) = "quoteGasPayment"
  /\ Len(txs) = 1 /\ txs[1].fn = "approve" /\ txs[1].outcome = "confirmed"
  /\ txs[1].args[2] > 0
  /\ chain.allowance = txs[1].args[2]

\* the approve was confirmed, the transfer reverted: the allowance stays granted
C29_ApprovedThenTransferReverted ==
  /\ Transferring /\ inv.status = "thrown"
  /\ Len(txs) = 2 /\ txs[1].fn = "approve" /\ txs[1].outcome = "confirmed"
  /\ txs[2].fn = "transferRemote" /\ txs[2].outcome = "reverted"
  /\ chain.allowance = txs[1].args[2]

SignerError == "invalid private key"

\* C30: when the credential passed to transferToken is a valid address and
\* not a private key, sender resolution accepts it as the sender and the
\* reads proceed with it, but no transaction is ever submitted: the
\* invocation never returns, and the construction of the signer fails at
\* the first write, inside approve when the allowance falls short and
\* inside transferRemote otherwise
C30_AddressCredentialNeverSigns ==
  [](Transferring /\ isAddress(Credential) /\ InputStepsPass(inv) =>
       /\ inv.senderAddress = Credential
       /\ \A k \in CallsOf("allowance") : calls[k].arg = Credential \o "," \o OriginRouter
       /\ txs = <<>>
       /\ inv.status # "returned"
       /\ inv.pc <= PipelineIndex(IF inv.approving THEN "approveAmount" ELSE "transferRemote")
       /\ inv.status = "thrown" /\ StepAt(inv) = "approveAmount" =>
            inv.message = "Failed to approve token: " \o SignerError
       /\ inv.status = "thrown" /\ StepAt(inv) = "transferRemote" =>
            inv.message = "Failed to transfer tokens: " \o SignerError)

\* the allowance suffices: the signer fails inside transferRemote
C30_SignerFailsAtTransferRemote ==
  /\ Transferring /\ isAddress(Credential)
  /\ CallsOf("allowance") # {} /\ CallsOf("quoteGasPayment") # {}
  /\ ~inv.approving
  /\ inv.status = "thrown"
  /\ inv.message = "Failed to transfer tokens: invalid private key"
  /\ txs = <<>>

\* the allowance falls short: the signer fails inside approve
C30_SignerFailsAtApprove ==
  /\ Transferring /\ isAddress(Credential)
  /\ CallsOf("allowance") # {}
  /\ inv.approving
  /\ inv.status = "thrown"
  /\ inv.message = "Failed to approve token: invalid private key"
  /\ txs = <<>>

====
